-------------------------- MODULE EffectiveActions --------------------------
(***************************************************************************)
(* May the caller take one action at one scope?  Adapter.EffectiveActions  *)
(* (internal/azure/permissions.go) lists the role assignments, reads their *)
(* role definitions in parallel, lists the deny assignments and decides,   *)
(* every read through the client of ArmClient.  What Azure holds is chosen *)
(* at the start and does not change; what the function gets to see of it   *)
(* depends on the pages, the refusals and the end of the context.          *)
(***************************************************************************)
EXTENDS ArmClient

CONSTANTS Roles,        \* the roles assigned to the caller, one per definition
          Assignments,  \* the call that lists the role assignments
          DenyList,     \* the call that lists the deny assignments
          DenyForms     \* the forms a deny assignment may have in Azure

ASSUME EffectiveActionsAssumption ==
    /\ Calls = Roles \cup {Assignments, DenyList}
    /\ Assignments \notin Roles /\ DenyList \notin Roles /\ Assignments # DenyList

VARIABLES grant,      \* what each role says of the action
          onPage,     \* the page of the listing that has its assignment
          assignedAt, \* where that assignment was made
          deny,       \* the page that has a deny assignment of the action, or 0
          denyForm,   \* whom it names
          phase,      \* where the function is
          settled,    \* the goroutines that have stored what they read
          fatal,      \* one of them saw the context ended
          decision
vars == <<callVars, grant, onPage, assignedAt, deny, denyForm, phase, settled, fatal, decision>>
truth == <<grant, onPage, assignedAt, deny, denyForm>>

Grants == {"grants", "on condition", "nothing"}
\* An assignment is in force where it was made and below. Its scope is a prefix
\* of the scope asked about, unless a management group stands above the
\* subscription: its path is not the beginning of any other.
Places == {"prefix", "management group"}
\* A deny assignment names the caller or everyone, or a group the caller is in;
\* or it names everyone and spares a group the caller is in.
Forms == {"the caller", "a group", "all but a group"}
ASSUME FormsAssumption == DenyForms \subseteq Forms
Phases == {"identity", "assignments", "definitions", "denies", "over"}
Decisions == {"allowed", "denied", "unknown", "error"}
ASSUME DecisionsAssumption == Nothing \notin Decisions

Init ==
    /\ CallsInit
    /\ grant \in [Roles -> Grants]
    /\ onPage \in [Roles -> 1 .. there[Assignments]]
    /\ assignedAt \in [Roles -> Places]
    /\ deny \in 0 .. there[DenyList] /\ denyForm \in DenyForms
    /\ phase = "identity" /\ settled = {} /\ fatal = FALSE
    /\ decision = Nothing

\* armClient.principal takes the caller's object id from a token.
Identify ==
    /\ phase = "identity"
    /\ phase' = "assignments"
    /\ Ask({Assignments})
    /\ UNCHANGED <<truth, settled, fatal, decision>>
GiveUp ==
    /\ phase' = "over" /\ decision' = "error"
    /\ UNCHANGED <<callVars, truth, settled, fatal>>
NoIdentity == phase = "identity" /\ GiveUp

\* The assignments that were listed and that scopeCovers keeps.
scopeCovers(r) == assignedAt[r] = "prefix"
Seen == {r \in Roles : onPage[r] <= page[Assignments] /\ scopeCovers(r)}
ReadDefinitions ==
    /\ phase = "assignments" /\ result[Assignments] \in Listed
    /\ phase' = "definitions"
    /\ Ask(Seen)
    /\ UNCHANGED <<truth, settled, fatal, decision>>
NoAssignments ==
    /\ phase = "assignments" /\ result[Assignments] \in Errors
    /\ GiveUp

\* A goroutine has its answer and, under the lock, stores it.
Store(r) ==
    /\ phase = "definitions" /\ r \in Seen \ settled /\ stage[r] = "done"
    /\ settled' = settled \cup {r}
    /\ fatal' = (fatal \/ (result[r] \notin Listed /\ cancelled))
    /\ UNCHANGED <<callVars, truth, phase, decision>>

\* wg.Wait returns.
ReadDenies ==
    /\ phase = "definitions" /\ settled = Seen /\ ~fatal
    /\ phase' = "denies"
    /\ Ask({DenyList})
    /\ UNCHANGED <<truth, settled, fatal, decision>>
Interrupted == phase = "definitions" /\ settled = Seen /\ fatal /\ GiveUp

\* The decision, in the order of the function's switch.
Readable(r) == result[r] \in Listed
DenyUnreadable == result[DenyList] = "unavailable"
applies == denyForm \in {"the caller", "all but a group"}
DenySeen == ~DenyUnreadable /\ deny \in 1 .. page[DenyList] /\ applies
Granted == \E r \in Seen : Readable(r) /\ grant[r] = "grants"
Conditional == \E r \in Seen : Readable(r) /\ grant[r] = "on condition"
deniedUnlessGranted ==
    CASE DenySeen -> "denied"
      [] ~DenySeen /\ Granted /\ ~DenyUnreadable -> "allowed"
      [] OTHER -> "denied"
Verdict ==
    CASE DenySeen -> "denied"
      [] ~DenySeen /\ Granted -> IF DenyUnreadable THEN "unknown" ELSE "allowed"
      [] ~DenySeen /\ ~Granted /\ (Conditional \/ \E r \in Seen : ~Readable(r)) -> "unknown"
      [] OTHER -> "denied"
Decide ==
    /\ phase = "denies" /\ result[DenyList] \in Listed \cup {"unavailable"}
    /\ phase' = "over" /\ decision' = Verdict
    /\ UNCHANGED <<callVars, truth, settled, fatal>>
NoDenies ==
    /\ phase = "denies" /\ result[DenyList] \in Errors \ {"unavailable"}
    /\ GiveUp

\* A call goes on, or the context ends, while the function waits.
While == UNCHANGED <<truth, phase, settled, fatal, decision>>
Go == Identify \/ NoIdentity \/ ReadDefinitions \/ NoAssignments \/ ReadDenies \/ Interrupted \/ Decide \/ NoDenies
Next ==
    \/ Go
    \/ \E r \in Roles : Store(r)
    \/ phase # "over" /\ (Cancel \/ \E c \in Calls : CallStep(c)) /\ While

\* Goroutines run, Azure's answers come within the 60 s of the http.Client and
\* the sleeps end. azd and az are given no time to answer: a token command is
\* only sure to end when the context does.
Goes(c) == Acquire(c) \/ NoSlot(c) \/ Token(c) \/ Respond(c) \/ WakeUp(c) \/ SleepCut(c)
Killed(c) == cancelled /\ (Mint(c) \/ NoToken(c))
Fairness ==
    /\ WF_vars(Go /\ (phase = "identity" => cancelled)) /\ \A r \in Roles : WF_vars(Store(r))
    /\ \A c \in Calls : WF_vars(Goes(c) /\ While) /\ WF_vars(Killed(c) /\ While)
Spec == Init /\ [][Next]_vars /\ Fairness

-----------------------------------------------------------------------------
\* The client's slots are accounted for whatever fails, and no definition is
\* asked for, or stored, before the assignments that name it are known.
TypeOK ==
    /\ CallsTypeOK
    /\ phase \in Phases /\ settled \subseteq Seen /\ fatal \in BOOLEAN
    /\ decision \in Decisions \cup {Nothing}
    /\ decision # Nothing <=> phase = "over"
    /\ \A r \in Roles : stage[r] # "idle" => r \in Seen
    /\ phase = "over" => taken = 0

\* A yes or a no is what the readable part of Azure says, however the reads of
\* it fail: a definition, a deny list or a condition that could not be read or
\* judged never becomes one (permissions.go, the switch at 217). Yes: a role
\* grants the action, and a deny list that was whole has no deny assignment but
\* one that names a group. No: there is a deny assignment that names the caller
\* or everyone, or the listing was cut, or no assignment on a prefix of the
\* scope gives anything.
DecisionIsTrue ==
    /\ decision = "allowed" => /\ \E r \in Roles : grant[r] = "grants"
                               /\ result[DenyList] = "whole" => deny = 0 \/ denyForm = "a group"
    /\ decision = "denied" => \/ deny # 0 /\ denyForm # "a group"
                              \/ result[Assignments] = "cut"
                              \/ \A r \in Roles : assignedAt[r] = "prefix" => grant[r] = "nothing"

\* "DecisionAllowed means a role assignment grants the action and no deny
\* assignment ... blocks it" (api.go:211).
AllowedIsAllowed ==
    decision = "allowed" => (\E r \in Roles : grant[r] = "grants") /\ (deny = 0 \/ denyForm = "all but a group")

\* The function returns, whatever Azure answers and whenever the context ends,
\* unless azd or az hangs under a context nobody ends (auth.go:223): no
\* goroutine waits for ever for a slot that an error, a retry or a page kept.
TokenHangs ==
    \/ <>[](phase = "identity" /\ ~cancelled)
    \/ \E c \in Calls : <>[](stage[c] = "minting" /\ ~cancelled)
Returns == <>(phase = "over") \/ TokenHangs
=============================================================================
