-------------------------- MODULE DoctorGateProofs --------------------------
(***************************************************************************)
(* What the gate promises for any catalogue, any set of problems,          *)
(* suppressions and command lines, and any number of edits and days.       *)
(***************************************************************************)
EXTENDS DoctorGate, Sequences, TLAPS

(* The baseline file holds the fingerprints of what it was recorded from.  *)
BaselineOK ==
  /\ baseline = NoFile => recorded = {}
  /\ \A q \in recorded : Fingerprint(q) \in baseline
  /\ baseline # NoFile => \A fp \in baseline : \E q \in recorded : Fingerprint(q) = fp

IInv == TypeOK /\ BaselineOK

-----------------------------------------------------------------------------
LEMMA RankIsOrder ==
  /\ rank("error") = 3
  /\ \A s \in Severities : rank(s) \in 1..3
  /\ \A s : rank(s) \in 0..3
<1>1. rank("error") = 3 /\ \A s \in Severities : rank(s) \in 1..3
  BY DEF rank, Severities
<1>2. ASSUME NEW s PROVE rank(s) \in 0..3
  BY DEF rank
<1> QED
  BY <1>1, <1>2

(* A problem that moved is the same but for its line.                      *)
LEMMA MovedIs ==
  ASSUME NEW p \in Problems
  PROVE  Moved(p) = [rule |-> p.rule, resource |-> p.resource, key |-> p.key, line |-> p.line + offset,
                     text |-> p.text, override |-> p.override]
<1>1. p = [rule |-> p.rule, resource |-> p.resource, key |-> p.key, line |-> p.line, text |-> p.text, override |-> p.override]
  BY ProblemsAssumption
<1> QED
  BY <1>1 DEF Moved

LEMMA Numbers ==
  ASSUME TypeOK
  PROVE  MaxOffset \in Nat /\ offset \in Nat /\ offset <= MaxOffset /\ MaxDay \in Nat /\ today \in Nat /\ today <= MaxDay
<1>1. offset \in 0..MaxOffset /\ today \in 0..MaxDay
  BY DEF TypeOK
<1> QED
  BY <1>1, BoundsAssumption

(* Two problems of one fingerprint are one problem, by the key their rule  *)
(* sets or by place and wording; and the other way round.                  *)
LEMMA FingerprintTells ==
  ASSUME NEW p, NEW q
  PROVE  Fingerprint(p) = Fingerprint(q) <=> SameProblem(p, q)
<1>1. Fingerprint(p) = Fingerprint(q) <=> p.rule = q.rule /\ p.resource = q.resource /\ derivedKey(p) = derivedKey(q)
  BY DEF Fingerprint
<1>2. CASE p.key = NoKey /\ q.key = NoKey
  BY <1>1, <1>2 DEF SameProblem, derivedKey
<1>3. CASE p.key # NoKey /\ q.key # NoKey
  <2>1. derivedKey(p) = <<p.key>> /\ derivedKey(q) = <<q.key>>
    BY <1>3 DEF derivedKey
  <2> QED
    BY <1>1, <1>3, <2>1 DEF SameProblem
<1>4. CASE (p.key = NoKey) # (q.key = NoKey)
  <2>1. \A a, b, c, d : <<a>> # <<b, c, d>>
    <3> TAKE a, b, c, d
    <3>1. Len(<<a>>) = 1 /\ Len(<<b, c, d>>) = 3
      OBVIOUS
    <3> QED
      BY <3>1
  <2>2. derivedKey(p) # derivedKey(q)
    BY <1>4, <2>1 DEF derivedKey
  <2> QED
    BY <1>1, <1>4, <2>2 DEF SameProblem
<1> QED
  BY <1>2, <1>3, <1>4

(* What a run makes of a problem it looked for.                            *)
LEMMA ProblemIsFound ==
  ASSUME NEW req \in Requests, NEW p \in problems, p \in Problems, Answered(req, p.rule)
  PROVE  \E g \in applySuppressions(applyBaseline(EngineFindings(req))) :
           /\ g.rule = p.rule /\ g.resource = p.resource /\ g.fingerprint = Fingerprint(Moved(p))
           /\ g.severity = IF p.rule \in AdapterIds THEN p.override ELSE lowerSeverity(p.rule, p.override)
           /\ g.baselined = (baseline # NoFile /\ g.fingerprint \in baseline)
           /\ g.suppressed = (\E e \in suppressions : ~Expired(e) /\ matches(e, g))
<1> DEFINE e0 == Enrich(Moved(p))
           b0 == [e0 EXCEPT !.baselined = e0.fingerprint \in baseline]
<1>1. e0 \in EngineFindings(req)
  BY DEF EngineFindings
<1>2. /\ e0.rule = p.rule /\ e0.resource = p.resource /\ e0.fingerprint = Fingerprint(Moved(p))
      /\ e0.severity = (IF p.rule \in AdapterIds THEN p.override ELSE lowerSeverity(p.rule, p.override))
      /\ e0.baselined = FALSE
      /\ e0 = [rule |-> e0.rule, resource |-> e0.resource, fingerprint |-> e0.fingerprint, suppressed |-> FALSE,
               baselined |-> FALSE, severity |-> e0.severity]
  BY MovedIs DEF Enrich
<1>3. PICK f \in applyBaseline(EngineFindings(req)) :
        /\ f = [rule |-> e0.rule, resource |-> e0.resource, fingerprint |-> e0.fingerprint, suppressed |-> FALSE,
                baselined |-> (baseline # NoFile /\ e0.fingerprint \in baseline), severity |-> e0.severity]
  <2>1. CASE baseline = NoFile
    BY <1>1, <1>2, <2>1 DEF applyBaseline
  <2>2. CASE baseline # NoFile
    <3>1. b0 \in applyBaseline(EngineFindings(req))
      BY <1>1, <2>2 DEF applyBaseline
    <3> QED
      BY <1>2, <2>2, <3>1
  <2> QED
    BY <2>1, <2>2
<1> DEFINE g == [f EXCEPT !.suppressed = \E e \in {x \in suppressions : ~Expired(x)} : matches(e, f)]
<1>4. g \in applySuppressions(applyBaseline(EngineFindings(req)))
  BY <1>3 DEF applySuppressions
<1>5. /\ g.rule = f.rule /\ g.resource = f.resource /\ g.fingerprint = f.fingerprint /\ g.severity = f.severity
      /\ g.baselined = f.baselined
      /\ g.suppressed = \E e \in {x \in suppressions : ~Expired(x)} : matches(e, f)
  BY <1>3
<1>6. \A e : matches(e, g) <=> matches(e, f)
  BY <1>5 DEF matches
<1> QED
  BY <1>2, <1>3, <1>4, <1>5, <1>6

(* An active finding at --fail-on or above keeps a run from exiting 0.     *)
LEMMA ActiveIsNoPass ==
  ASSUME NEW req \in Requests, ~CannotRun(req),
         NEW g \in applySuppressions(applyBaseline(EngineFindings(req))),
         active(g), rank(g.severity) >= rank(req.failOn)
  PROVE  Report(req).exit # 0
<1>1. rank(req.failOn) \in Nat /\ rank(req.minSeverity) \in Nat /\ rank(g.severity) \in Nat
  BY RankIsOrder
<1>2. g \in Shown(req)
  BY <1>1 DEF Shown, CannotRun
<1>3. \A skips : ClassifyExit(req, Shown(req), skips) # 0
  BY <1>2 DEF ClassifyExit
<1>4. Report(req).exit = ClassifyExit(req, Shown(req), Skips(req))
  BY DEF Report, RunReport
<1> QED
  BY <1>3, <1>4

-----------------------------------------------------------------------------
LEMMA InitOK == Init => IInv
<1> SUFFICES ASSUME Init PROVE IInv
  OBVIOUS
<1>1. TypeOK
  <2>1. input \in [RuleIds -> InputStates]
    BY DEF Init, InputStates
  <2>2. offset \in 0..MaxOffset /\ today \in 0..MaxDay
    BY BoundsAssumption DEF Init
  <2>3. /\ problems \subseteq Problems /\ arm \in {"compiled", "failed", "none"} /\ azdVersion \in AzdVersions \union {""}
        /\ suppressions \subseteq Entries /\ recorded \subseteq MovedProblems
    BY DEF Init
  <2>4. baseline = NoFile
    BY DEF Init
  <2> QED
    BY <2>1, <2>2, <2>3, <2>4, Zenon DEF TypeOK
<1>2. BaselineOK
  BY DEF Init, BaselineOK
<1> QED
  BY <1>1, <1>2 DEF IInv

LEMMA RecordingKeeps ==
  ASSUME IInv, NEW req \in Requests, WriteBaseline(req)
  PROVE  IInv'
<1>1. \A fp \in baseline' : \E p \in problems : fp = Fingerprint(Moved(p))
  <2> SUFFICES ASSUME NEW p \in problems PROVE Enrich(Moved(p)).fingerprint = Fingerprint(Moved(p))
    BY DEF WriteBaseline, EngineFindings
  <2> QED
    BY DEF Enrich
<1>2. \A fp \in baseline' : fp \in Fingerprints
  <2> SUFFICES ASSUME NEW p \in problems PROVE Fingerprint(Moved(p)) \in Fingerprints
    BY <1>1
  <2>1. p \in Problems /\ offset \in 0..MaxOffset
    BY DEF IInv, TypeOK
  <2>2. Fingerprint(Moved(p)) \in {<<p.rule, p.resource, <<p.key>>>>, <<p.rule, p.resource, <<"auto", p.line + offset, p.text>>>>}
    BY <2>1, MovedIs DEF Fingerprint, derivedKey
  <2> QED
    BY <2>1, <2>2 DEF Fingerprints
<1>3. baseline' # NoFile
  BY <1>2, NoFileAssumption
<1>4. recorded' = {Moved(p) : p \in {q \in problems : Fingerprint(Moved(q)) \in baseline'}}
  BY DEF WriteBaseline
<1>5. BaselineOK'
  <2>1. \A q \in recorded' : Fingerprint(q) \in baseline'
    BY <1>4
  <2>2. \A fp \in baseline' : \E q \in recorded' : Fingerprint(q) = fp
    BY <1>1, <1>4
  <2>3. \A q : Fingerprint(q)' = Fingerprint(q)
    BY DEF Fingerprint, derivedKey
  <2> QED
    BY <1>3, <2>1, <2>2 DEF BaselineOK, Fingerprint, derivedKey
<1>6. TypeOK'
  <2>1. baseline' \subseteq Fingerprints
    BY <1>2
  <2>2. ASSUME NEW p \in problems PROVE Moved(p) \in MovedProblems
    <3>1. p \in Problems /\ offset \in 0..MaxOffset
      BY DEF IInv, TypeOK
    <3>2. PICK o \in 0..MaxOffset : o = offset
      BY <3>1
    <3>3. Moved(p) = [p EXCEPT !.line = @ + o]
      BY <3>2 DEF Moved
    <3> QED
      BY <3>1, <3>3 DEF MovedProblems
  <2>3. recorded' \subseteq MovedProblems
    BY <1>4, <2>2
  <2>4. UNCHANGED <<problems, offset, input, arm, azdVersion, suppressions, today>>
    BY DEF WriteBaseline, project
  <2>5. Fingerprints' = Fingerprints /\ MovedProblems' = MovedProblems
    BY DEF Fingerprints, MovedProblems
  <2> QED
    BY <2>1, <2>3, <2>4, <2>5 DEF IInv, TypeOK
<1> QED
  BY <1>5, <1>6 DEF IInv

LEMMA NextOK == IInv /\ [Next]_vars => IInv'
<1> SUFFICES ASSUME IInv, [Next]_vars PROVE IInv'
  OBVIOUS
<1>1. ASSUME NEW req \in Requests, WriteBaseline(req) PROVE IInv'
  BY <1>1, RecordingKeeps
<1>2. ASSUME UNCHANGED <<baseline, recorded>>, TypeOK' PROVE IInv'
  BY <1>2 DEF IInv, BaselineOK, Fingerprint, derivedKey
<1>3. CASE Breaks \/ Fixes
  BY <1>2, <1>3 DEF Breaks, Fixes, files, IInv, TypeOK
<1>4. CASE EditAbove
  <2>1. offset' \in 0..MaxOffset
    BY <1>4, Numbers DEF EditAbove, IInv
  <2> QED
    BY <1>2, <1>4, <2>1 DEF EditAbove, files, IInv, TypeOK
<1>5. CASE InputChanges
  <2>1. input' \in [RuleIds -> InputStates]
    BY <1>5, CatalogueAssumption DEF InputChanges, IInv, TypeOK
  <2> QED
    BY <1>2, <1>5, <2>1 DEF InputChanges, files, IInv, TypeOK
<1>6. CASE TemplateChanges \/ AzdChanges
  BY <1>2, <1>6 DEF TemplateChanges, AzdChanges, files, IInv, TypeOK
<1>7. CASE Suppress
  BY <1>2, <1>7 DEF Suppress, project, IInv, TypeOK
<1>8. CASE NextDay
  <2>1. today' \in 0..MaxDay
    BY <1>8, Numbers DEF NextDay, IInv
  <2> QED
    BY <1>2, <1>8, <2>1 DEF NextDay, files, project, IInv, TypeOK
<1>9. CASE UNCHANGED vars
  BY <1>2, <1>9 DEF vars, files, project, IInv, TypeOK
<1> QED
  BY <1>1, <1>3, <1>4, <1>5, <1>6, <1>7, <1>8, <1>9 DEF Next

LEMMA InvariantHolds == Spec => []IInv
<1>1. Init => IInv
  BY InitOK
<1>2. IInv /\ [Next]_vars => IInv'
  BY NextOK
<1> QED
  BY <1>1, <1>2, PTL DEF Spec

-----------------------------------------------------------------------------
(* Every variable keeps its type.                                          *)
THEOREM GateTypeCorrect == Spec => []TypeOK
<1>1. IInv => TypeOK
  BY DEF IInv
<1> QED
  BY <1>1, InvariantHolds, PTL

(* Where a run exits 0, what a rule that ran finds at --fail-on or above   *)
(* was recorded in the baseline or is under a suppression that is valid    *)
(* (ClassifyExit, baseline.Apply, suppress.Apply and the fingerprints      *)
(* together).                                                              *)
THEOREM NothingNewGetsThrough == Spec => []NothingNewPasses
<1>1. IInv => NothingNewPasses
  <2> SUFFICES ASSUME IInv, NEW req \in Requests, Report(req).exit = 0, NEW p \in problems, ~Excused(p),
                      p.rule \in Report(req).evaluated
               PROVE  rank(lowerSeverity(p.rule, p.override)) < rank(Report(req).request.failOn)
    BY DEF NothingNewPasses, Passing, Reports
  <2>1. ~CannotRun(req)
    BY DEF Report, Stopped
  <2>2. Report(req) = RunReport(req) /\ Report(req).request = req /\ p.rule \in Evaluated(req)
    BY <2>1 DEF Report, RunReport
  <2>3. p \in Problems /\ p.rule \in RuleIds /\ p.rule \notin AdapterIds /\ Answered(req, p.rule)
    <3>1. p.rule \in RuleIds
      BY <2>2 DEF Evaluated, Selected, Selection
    <3> QED
      BY <2>2, <3>1, CatalogueAssumption DEF Answered, Evaluated, IInv, TypeOK
  <2>4. PICK g \in applySuppressions(applyBaseline(EngineFindings(req))) :
           /\ g.rule = p.rule /\ g.resource = p.resource /\ g.fingerprint = Fingerprint(Moved(p))
           /\ g.severity = lowerSeverity(p.rule, p.override)
           /\ g.baselined = (baseline # NoFile /\ g.fingerprint \in baseline)
           /\ g.suppressed = (\E e \in suppressions : ~Expired(e) /\ matches(e, g))
    BY <2>3, ProblemIsFound
  <2>5. ~g.baselined
    <3> SUFFICES ASSUME baseline # NoFile, g.fingerprint \in baseline PROVE FALSE
      BY <2>4
    <3>1. PICK q \in recorded : Fingerprint(q) = Fingerprint(Moved(p))
      BY <2>4 DEF IInv, BaselineOK
    <3>2. SameProblem(Moved(p), q)
      BY <3>1, FingerprintTells
    <3> QED
      BY <3>1, <3>2 DEF Excused, Recorded
  <2>6. ~g.suppressed
    <3> SUFFICES ASSUME NEW e \in suppressions, ~Expired(e), matches(e, g) PROVE FALSE
      BY <2>4
    <3>1. today \in Int /\ e.expires \in Int
      <4>1. e \in Entries
        BY DEF IInv, TypeOK
      <4> QED
        BY <4>1, EntriesAssumption, Numbers DEF IInv
    <3>2. today <= e.expires
      BY <3>1 DEF Expired
    <3>3. e.fingerprintOf = AnyOf \/ SameProblem(Moved(p), e.fingerprintOf)
      BY <2>4, FingerprintTells DEF matches
    <3> QED
      BY <2>4, <3>2, <3>3 DEF matches, Excused
  <2>7. ~(rank(g.severity) >= rank(req.failOn))
    BY <2>1, <2>5, <2>6, ActiveIsNoPass DEF active
  <2> QED
    BY <2>2, <2>4, <2>7, RankIsOrder
<1> QED
  BY <1>1, InvariantHolds, PTL

(* What was recorded stays excused: a finding of a recorded problem is     *)
(* baselined in every later run, wherever other problems come and go.      *)
THEOREM RecordedStaysExcused == Spec => []BaselineHolds
<1>1. IInv => BaselineHolds
  <2> SUFFICES ASSUME IInv, NEW req \in Requests, NEW p \in problems, Recorded(p), NEW f \in Report(req).findings,
                      f.fingerprint = Fingerprint(Moved(p))
               PROVE  f.baselined
    BY DEF BaselineHolds, Reports
  <2>1. f \in applySuppressions(applyBaseline(EngineFindings(req)))
    BY DEF Report, Stopped, RunReport, Shown
  <2>2. PICK q \in recorded : SameProblem(Moved(p), q)
    BY DEF Recorded
  <2>3. f.fingerprint \in baseline /\ baseline # NoFile
    BY <2>2, FingerprintTells DEF IInv, BaselineOK
  <2>4. ASSUME NEW e \in suppressions, f = expiredFinding(e) PROVE FALSE
    <3>1. f.fingerprint = <<EngineId, e.rule, e.fingerprintOf>>
      BY <2>4 DEF expiredFinding
    <3>2. p \in Problems /\ p.rule # EngineId /\ Moved(p).rule = p.rule
      <4>1. p \in Problems
        BY DEF IInv, TypeOK
      <4>2. p.rule # EngineId
        BY <4>1, CatalogueAssumption, ProblemsAssumption
      <4> QED
        BY <4>1, <4>2, MovedIs
    <3>3. f.fingerprint[1] = EngineId /\ Fingerprint(Moved(p))[1] = p.rule
      BY <3>1, <3>2 DEF Fingerprint
    <3> QED
      BY <3>2, <3>3
  <2>5. PICK b \in applyBaseline(EngineFindings(req)) :
           f = [b EXCEPT !.suppressed = \E e \in {x \in suppressions : ~Expired(x)} : matches(e, b)]
    BY <2>1, <2>4 DEF applySuppressions
  <2>6. PICK e \in EngineFindings(req) : b = [e EXCEPT !.baselined = e.fingerprint \in baseline]
    BY <2>3 DEF applyBaseline
  <2>7. PICK m \in problems : e = Enrich(Moved(m))
    BY DEF EngineFindings
  <2>8. e = [rule |-> e.rule, resource |-> e.resource, fingerprint |-> e.fingerprint, suppressed |-> e.suppressed,
             baselined |-> e.baselined, severity |-> e.severity]
    BY <2>7 DEF Enrich
  <2>9. b.fingerprint = e.fingerprint /\ b.baselined = (e.fingerprint \in baseline)
        /\ b = [rule |-> b.rule, resource |-> b.resource, fingerprint |-> b.fingerprint, suppressed |-> b.suppressed,
                baselined |-> b.baselined, severity |-> b.severity]
    BY <2>6, <2>8
  <2>10. f.fingerprint = b.fingerprint /\ f.baselined = b.baselined
    BY <2>5, <2>9
  <2> QED
    BY <2>3, <2>9, <2>10
<1> QED
  BY <1>1, InvariantHolds, PTL

(* No run exits 0 while an expired suppression is in the file, whatever it *)
(* once hid (suppress.Apply reports it as an error).                       *)
THEOREM ExpiredShows == Spec => []ExpiryBites
<1>1. IInv => ExpiryBites
  <2> SUFFICES ASSUME IInv, NEW e \in suppressions, today > e.expires, NEW req \in Requests, Report(req).exit = 0
               PROVE  FALSE
    BY DEF ExpiryBites, Passing, Reports
  <2>1. ~CannotRun(req)
    BY DEF Report, Stopped
  <2>2. expiredFinding(e) \in applySuppressions(applyBaseline(EngineFindings(req)))
    BY DEF applySuppressions, Expired
  <2>3. active(expiredFinding(e)) /\ rank(expiredFinding(e).severity) = 3
    BY RankIsOrder DEF active, expiredFinding
  <2>4. rank(req.failOn) \in 1..3
    BY RankIsOrder, RequestsAssumption
  <2> QED
    BY <2>1, <2>2, <2>3, <2>4, ActiveIsNoPass
<1> QED
  BY <1>1, InvariantHolds, PTL
=============================================================================
