------------------------------ MODULE Verdicts ------------------------------
(***************************************************************************)
(* What an agent and its people are promised about the agent's requests:   *)
(* each gets at most one verdict, and keeps it.  The verdict is what the   *)
(* rules say at once, what somebody has answered to that request, or a     *)
(* refusal.  The rules alone approve only what they let pass.              *)
(***************************************************************************)
CONSTANTS
    Requests,   \* what may be asked
    Replies,    \* what people may say
    Approvals,  \* the verdicts that let the agent go on
    Refusals,   \* the verdicts nobody has to ask for
    Undecided   \* no verdict yet

VARIABLES
    asked,    \* the requests made so far
    passed,   \* those that the rules let pass
    said,     \* per request, what people have answered
    verdict   \* per request, its verdict

Init ==
    /\ asked = {}
    /\ passed = {}
    /\ said = [r \in Requests |-> {}]
    /\ verdict = [r \in Requests |-> Undecided]

New(r) ==
    /\ r \notin asked
    /\ asked' = asked \cup {r}
    /\ UNCHANGED said

\* Somebody has to answer.
Ask(r) == New(r) /\ UNCHANGED <<passed, verdict>>

\* The rules approve, or refuse.
Pass(r) ==
    /\ New(r)
    /\ passed' = passed \cup {r}
    /\ \E v \in Approvals : verdict' = [verdict EXCEPT ![r] = v]

Ban(r) ==
    /\ New(r)
    /\ \E v \in Refusals : verdict' = [verdict EXCEPT ![r] = v]
    /\ UNCHANGED passed

\* People may answer more than once, and too late.
Say(r, a) ==
    /\ r \in asked
    /\ said' = [said EXCEPT ![r] = @ \cup {a}]
    /\ UNCHANGED <<asked, passed, verdict>>

Waiting == {r \in asked : verdict[r] = Undecided}

Heed(r) ==
    /\ r \in Waiting
    /\ \E a \in said[r] : verdict' = [verdict EXCEPT ![r] = a]
    /\ UNCHANGED <<asked, passed, said>>

\* Nobody answers in time, or nobody is left to answer.
Refuse(S) ==
    /\ S \subseteq Waiting
    /\ \E f \in [S -> Refusals] :
         verdict' = [r \in Requests |-> IF r \in S THEN f[r] ELSE verdict[r]]
    /\ UNCHANGED <<asked, passed, said>>

Next ==
    \/ \E r \in Requests :
         \/ Ask(r) \/ Pass(r) \/ Ban(r) \/ Heed(r)
         \/ \E a \in Replies : Say(r, a)
    \/ \E S \in SUBSET Requests : Refuse(S)

Spec == Init /\ [][Next]_<<asked, passed, said, verdict>>
=============================================================================
