-------------------------- MODULE PermissionBridge --------------------------
(***************************************************************************)
(* How one session's tool permissions, plans and questions reach people    *)
(* and come back: the handlers of permission-modes.ts, the pending maps    *)
(* and timers of the bridge that ensureLive builds, the three *.respond    *)
(* branches of handleClientMessage (session-manager.ts), and the cards     *)
(* that the chat draws from the app.* events (events-to-messages.ts,       *)
(* thread.tsx).                                                            *)
(*                                                                         *)
(* A session may be evicted or die with the server and start again as a    *)
(* new LiveSession with empty maps; `gen' numbers these.  EventStream      *)
(* models how events are stored and delivered: here a broadcast is under   *)
(* way until it is stored, broadcasts may overtake each other, and a tab   *)
(* looks at what is stored whenever it redraws.  SessionManager models     *)
(* races between attaches, so here a cold attach is one step.              *)
(***************************************************************************)
EXTENDS Naturals, Sequences

CONSTANTS
    Requests,    \* requestIds the bridge may mint
    Tabs,        \* the user's open chats
    Modes,       \* modes the session may have
    Kinds,       \* kinds of request the agent makes
    MaxGens,     \* bound: LiveSessions
    MaxClicks,   \* bound: answers given
    MaxRestarts, \* bound: server restarts
    None

ASSUME BridgeAssumption ==
    /\ Modes \subseteq {"planning", "interactive", "auto"}
    /\ Kinds \subseteq {"permission", "plan", "question"}
    /\ MaxGens \in Nat
    /\ MaxClicks \in Nat
    /\ MaxRestarts \in Nat

-----------------------------------------------------------------------------
(* What is said.                                                           *)

(* The buttons of each card (thread.tsx); "yes" and "no" stand for any two *)
(* texts, and "" is the empty one, which the form never sends.             *)
Answers(k) ==
    CASE k = "permission" -> {"approve-once", "approve-for-session", "reject"}
      [] k = "plan"       -> {"approved", "rejected"}
      [] k = "question"   -> {"yes", "no"}

AllAnswers == Answers("permission") \cup Answers("plan") \cup Answers("question")
Approvals  == {"approve-once", "approve-for-session", "approved"}
Results    == AllAnswers \cup {""}

noTimeoutCase(k, d) == d

planNeedsFeedback(k, d) ==
    IF d \notin {"timeout", "approved"} THEN d
    ELSE CASE k = "permission" -> "reject"
           [] k = "plan"       -> "rejected"
           [] k = "question"   -> ""

(* What the handlers make of the bridge's promise (toPermissionResult and  *)
(* its two neighbours).                                                    *)
toResult(k, d) ==
    IF d # "timeout" THEN d
    ELSE CASE k = "permission" -> "reject"
           [] k = "plan"       -> "rejected"
           [] k = "question"   -> ""

(* What was asked, by which LiveSession, in which mode, and whether it is  *)
(* a shell command that matches DESTRUCTIVE_SHELL_PATTERN.                 *)
Request == [kind : Kinds, mode : Modes, deadly : BOOLEAN, gen : Nat]

ASSUME NoneAssumption == None \notin Request /\ None \notin Results
-----------------------------------------------------------------------------

VARIABLES
    mode,      \* live.mode
    gen,       \* the newest LiveSession
    isLive,    \* whether it is in this.live
    del,       \* where deleteSession is
    row,       \* whether the session's row exists
    request,   \* per requestId, what was asked, by which LiveSession and in which mode
    pending,   \* keys of the pending maps
    timers,    \* requests whose PERMISSION_TIMEOUT_MS timer has yet to fire
    outcome,   \* per request, what the SDK was told
    card,      \* per request, its card in the stored history
    flight,    \* broadcasts on their way to the store
    told,      \* broadcasts so far
    tabs,      \* attached tabs
    open,      \* per tab, the cards it shows with buttons
    wire,      \* per tab, its answers on their way to the server
    clicks, restarts,
    clicked,   \* history: per request, the answers people gave
    handled,   \* history: per request, the answers the server handled
    by,        \* history: per request, who settled it
    lost       \* history: requests that were waiting when the server died

sessionVars == <<mode, gen, isLive, del, row>>
mapVars     == <<request, pending, timers, outcome, by>>
eventVars   == <<card, flight, told>>
tabVars     == <<tabs, open, wire, clicks, clicked>>
vars        == <<sessionVars, mapVars, eventVars, tabVars, handled, restarts, lost>>

Answer    == [id : Requests, value : AllAnswers]
Broadcast == [n : Nat, id : Requests, value : AllAnswers \cup {"open"}]

TypeOK ==
    /\ mode \in Modes
    /\ gen \in Nat
    /\ isLive \in BOOLEAN
    /\ del \in {"none", "stopping", "removing"}
    /\ row \in BOOLEAN
    /\ request \in [Requests -> Request \cup {None}]
    /\ pending \subseteq Requests
    /\ timers \subseteq Requests
    /\ outcome \in [Requests -> Results \cup {None}]
    /\ card \in [Requests -> AllAnswers \cup {"absent", "open"}]
    /\ flight \subseteq Broadcast
    /\ told \in Nat
    /\ tabs \subseteq Tabs
    /\ open \in [Tabs -> SUBSET Requests]
    /\ wire \in [Tabs -> Seq(Answer)]
    /\ clicks \in 0 .. MaxClicks
    /\ clicked \in [Requests -> SUBSET AllAnswers]
    /\ handled \in [Requests -> Nat]
    /\ by \in [Requests -> {"nobody", "policy", "person", "timeout"}]
    /\ restarts \in 0 .. MaxRestarts
    /\ lost \subseteq Requests

Init ==
    /\ mode \in Modes
    /\ gen = 0
    /\ isLive = FALSE
    /\ del = "none"
    /\ row = TRUE
    /\ request = [r \in Requests |-> None]
    /\ pending = {}
    /\ timers = {}
    /\ outcome = [r \in Requests |-> None]
    /\ card = [r \in Requests |-> "absent"]
    /\ flight = {}
    /\ told = 0
    /\ tabs = {}
    /\ open = [t \in Tabs |-> {}]
    /\ wire = [t \in Tabs |-> <<>>]
    /\ clicks = 0
    /\ clicked = [r \in Requests |-> {}]
    /\ handled = [r \in Requests |-> 0]
    /\ by = [r \in Requests |-> "nobody"]
    /\ restarts = 0
    /\ lost = {}

-----------------------------------------------------------------------------
(* The agent's side.                                                       *)

(* broadcastAppEvent: the event is handed to the store.                    *)
Tell(r, v) ==
    /\ flight' = flight \cup {[n |-> told, id |-> r, value |-> v]}
    /\ told' = told + 1

settleAgain(S, d, who) ==
    /\ outcome' = [r \in Requests |-> IF r \in S THEN toResult(request[r].kind, d) ELSE outcome[r]]
    /\ by' = [r \in Requests |-> IF r \in S THEN who ELSE by[r]]

(* The promises of the requests in S are resolved with d; a promise that   *)
(* is already resolved stays as it is.                                     *)
Settle(S, d, who) ==
    LET T == {r \in S : outcome[r] = None}
    IN  /\ outcome' = [r \in Requests |-> IF r \in T THEN toResult(request[r].kind, d) ELSE outcome[r]]
        /\ by' = [r \in Requests |-> IF r \in T THEN who ELSE by[r]]

(* Which requests the handlers decide by themselves, and how: permissions  *)
(* in auto mode, and leaving plan mode outside planning mode.              *)
ByPolicy(q) == \/ q.kind = "permission" /\ q.mode = "auto"
               \/ q.kind = "plan" /\ q.mode # "planning"

Policy(q) ==
    CASE q.kind = "plan" -> "approved"
      [] q.deadly        -> "reject"
      [] OTHER           -> "approve-once"

(* The agent asks.  ask_user does not exist in auto mode.                  *)
Ask(r) ==
    \E k \in Kinds, d \in BOOLEAN :
        LET q == [kind |-> k, mode |-> mode, deadly |-> d, gen |-> gen] IN
        /\ isLive
        /\ request[r] = None
        /\ k = "question" => mode # "auto"
        /\ d => k = "permission"
        /\ request' = [request EXCEPT ![r] = q]
        /\ \/ /\ ByPolicy(q)
              /\ outcome' = [outcome EXCEPT ![r] = Policy(q)]
              /\ by' = [by EXCEPT ![r] = "policy"]
              /\ UNCHANGED <<pending, timers, flight, told>>
           \/ /\ ~ ByPolicy(q)
              /\ pending' = pending \cup {r}
              /\ timers' = timers \cup {r}
              /\ Tell(r, "open")
              /\ UNCHANGED <<outcome, by>>
        /\ UNCHANGED <<sessionVars, card, tabVars, handled, restarts, lost>>

deleteWithoutResolve(r) ==
    /\ r \in timers
    /\ timers' = timers \ {r}
    /\ pending' = pending \ {r}
    /\ UNCHANGED <<sessionVars, request, outcome, by, eventVars, tabVars, handled, restarts, lost>>

(* Nobody answered in time.                                                *)
Timeout(r) ==
    /\ r \in timers
    /\ timers' = timers \ {r}
    /\ pending' = pending \ {r}
    /\ Settle({r} \cap pending, "timeout", "timeout")
    /\ UNCHANGED <<sessionVars, request, eventVars, tabVars, handled, restarts, lost>>

-----------------------------------------------------------------------------
(* Storing the broadcasts.                                                 *)

(* The event is stored.  A card is drawn by its *_requested event, and the *)
(* latest *_resolved event after that says how it ended.                   *)
Store ==
    \E b \in flight :
        /\ row
        /\ flight' = flight \ {b}
        /\ card' = [card EXCEPT ![b.id] = IF @ = "absent" /\ b.value # "open" THEN @ ELSE b.value]
        /\ UNCHANGED <<sessionVars, mapVars, told, tabVars, handled, restarts, lost>>

(* The event cannot be stored; this is logged and nobody is told.          *)
FailStore ==
    \E b \in flight :
        /\ flight' = flight \ {b}
        /\ UNCHANGED <<sessionVars, mapVars, card, told, tabVars, handled, restarts, lost>>

-----------------------------------------------------------------------------
(* The people's side.                                                      *)

OpenCards == {r \in Requests : card[r] = "open"}

(* A tab attaches; a session that is not live starts a new LiveSession,    *)
(* with empty maps and the mode that its row has by now.                   *)
Attach(t) ==
    /\ t \notin tabs
    /\ \/ isLive /\ UNCHANGED <<mode, gen, isLive>>
       \/ ~ isLive /\ row /\ gen < MaxGens /\ mode' \in Modes /\ gen' = gen + 1 /\ isLive' = TRUE
    /\ tabs' = tabs \cup {t}
    /\ open' = [open EXCEPT ![t] = OpenCards]
    /\ UNCHANGED <<del, row, mapVars, eventVars, wire, clicks, clicked, handled, restarts, lost>>

(* The tab redraws with the events it has received.                        *)
Redraw(t) ==
    /\ t \in tabs
    /\ open[t] # OpenCards
    /\ open' = [open EXCEPT ![t] = OpenCards]
    /\ UNCHANGED <<sessionVars, mapVars, eventVars, tabs, wire, clicks, clicked, handled, restarts, lost>>

(* Somebody presses a button on a card.                                    *)
Click(t) ==
    /\ t \in tabs
    /\ clicks < MaxClicks
    /\ \E r \in open[t] : \E a \in Answers(request[r].kind) :
         /\ wire' = [wire EXCEPT ![t] = Append(@, [id |-> r, value |-> a])]
         /\ clicked' = [clicked EXCEPT ![r] = @ \cup {a}]
    /\ clicks' = clicks + 1
    /\ UNCHANGED <<sessionVars, mapVars, eventVars, tabs, open, handled, restarts, lost>>

(* The tab goes away, with whatever it sent that was not read yet.         *)
Leave(t) ==
    /\ t \in tabs
    /\ tabs' = tabs \ {t}
    /\ open' = [open EXCEPT ![t] = {}]
    /\ wire' = [wire EXCEPT ![t] = <<>>]
    /\ UNCHANGED <<sessionVars, mapVars, eventVars, clicks, clicked, handled, restarts, lost>>

(* The maps belong to one LiveSession: an answer to an earlier one's       *)
(* request, or to one that has left its map, resolves nothing.             *)
Resolve(r, a) ==
    LET found == {r} \cap {p \in pending : request[p].gen = gen}
    IN  /\ Settle(found, a, "person")
        /\ pending' = pending \ found

(* permission.respond, plan.respond, ask_user.respond: resolve what is     *)
(* pending, if anything is, and announce the answer in any case.  It is an *)
(* error when the session is not live.                                     *)
Respond(t) ==
    /\ wire[t] # <<>>
    /\ wire' = [wire EXCEPT ![t] = Tail(@)]
    /\ LET m == Head(wire[t]) IN
         \/ /\ isLive
            /\ Resolve(m.id, m.value)
            /\ Tell(m.id, m.value)
            /\ handled' = [handled EXCEPT ![m.id] = @ + 1]
         \/ ~ isLive /\ UNCHANGED <<outcome, by, pending, flight, told, handled>>
    /\ UNCHANGED <<sessionVars, request, timers, card, tabs, open, clicks, clicked, restarts, lost>>

-----------------------------------------------------------------------------
(* The end of a LiveSession.                                               *)

evictForgets ==
    /\ isLive
    /\ tabs = {}
    /\ isLive' = FALSE
    /\ pending' = {}
    /\ UNCHANGED <<mode, gen, del, row, request, timers, outcome, by, eventVars, tabVars, handled, restarts, lost>>

(* evict: the runtime is stopped; the maps and their timers stay behind.   *)
(* It does not look at the mode: an idle timer of an earlier LiveSession   *)
(* takes a session in auto mode too (SessionManager).                      *)
Evict ==
    /\ isLive
    /\ tabs = {}
    /\ isLive' = FALSE
    /\ UNCHANGED <<mode, gen, del, row, mapVars, eventVars, tabVars, handled, restarts, lost>>

(* deleteSession: what is pending is resolved, but stays in the maps while *)
(* the runtime stops.                                                      *)
BeginDelete ==
    /\ row
    /\ del = "none"
    /\ \/ isLive /\ del' = "stopping" /\ Settle({r \in pending : request[r].gen = gen}, "timeout", "timeout")
       \/ ~ isLive /\ del' = "removing" /\ UNCHANGED <<outcome, by>>
    /\ UNCHANGED <<mode, gen, isLive, row, request, pending, timers, eventVars, tabVars, handled, restarts, lost>>

(* The runtime has stopped and the session leaves this.live.               *)
StopDeleted ==
    /\ del = "stopping"
    /\ del' = "removing"
    /\ isLive' = FALSE
    /\ UNCHANGED <<mode, gen, row, mapVars, eventVars, tabVars, handled, restarts, lost>>

(* The row is deleted, and its events with it, or the database refuses.    *)
RemoveRow ==
    /\ del = "removing"
    /\ del' = "none"
    /\ \/ row' = FALSE /\ card' = [r \in Requests |-> "absent"]
       \/ UNCHANGED <<row, card>>
    /\ UNCHANGED <<mode, gen, isLive, mapVars, flight, told, tabVars, handled, restarts, lost>>

(* The server dies: only the stored events are left.                       *)
Restart ==
    /\ restarts < MaxRestarts
    /\ restarts' = restarts + 1
    /\ isLive' = FALSE
    /\ del' = "none"
    /\ lost' = lost \cup {r \in Requests : request[r] # None /\ outcome[r] = None}
    /\ pending' = {}
    /\ timers' = {}
    /\ flight' = {}
    /\ tabs' = {}
    /\ open' = [t \in Tabs |-> {}]
    /\ wire' = [t \in Tabs |-> <<>>]
    /\ UNCHANGED <<mode, gen, row, request, outcome, by, card, told, clicks, clicked, handled>>

Next ==
    \/ \E r \in Requests : Ask(r) \/ Timeout(r)
    \/ \E t \in Tabs : Attach(t) \/ Redraw(t) \/ Click(t) \/ Leave(t) \/ Respond(t)
    \/ Store \/ FailStore
    \/ Evict \/ BeginDelete \/ StopDeleted \/ RemoveRow \/ Restart

Spec == Init /\ [][Next]_vars

(* Timers fire and an append ends one way or the other.  Nobody has to     *)
(* answer, and the agent does not have to ask.                             *)
Fairness ==
    /\ \A r \in Requests : WF_vars(Timeout(r))
    /\ WF_vars(Store \/ FailStore)

FairSpec == Spec /\ Fairness
-----------------------------------------------------------------------------
(* Properties.                                                             *)

(* Fail safe: the SDK is told "approved" only because a person pressed     *)
(* that very button on that very request, or because the mode says so and  *)
(* the command is not destructive.  No timeout, deletion, eviction, late   *)
(* or repeated answer, or new LiveSession turns into an approval           *)
(* (toPermissionResult, createPermissionHandler).                          *)
ApprovalIsEarned ==
    \A r \in Requests :
        outcome[r] \in Approvals =>
            \/ outcome[r] \in clicked[r]
            \/ ByPolicy(request[r]) /\ ~ request[r].deadly

(* What the SDK hears when no person approves (toResult, Policy).          *)
Refusals == {"reject", "rejected", ""}

AskedFor == {r \in Requests : request[r] # None}
RuledIn  == {r \in AskedFor : ByPolicy(request[r]) /\ ~ request[r].deadly}

(* The bridge implements Verdicts: what the SDK is told of a request, it   *)
(* is told once, however its timer, the answers of several tabs, deletion, *)
(* eviction and new LiveSessions race for it, and it is what the mode      *)
(* says, a button that was pressed on that request, or a refusal           *)
(* (createPermissionHandler and its neighbours).                           *)
Promise == INSTANCE Verdicts WITH
              Replies <- AllAnswers,
              Undecided <- None,
              asked <- AskedFor,
              passed <- RuledIn,
              said <- clicked,
              verdict <- outcome

KeepsVerdicts == Promise!Spec

(* A request that waits is in its map, where an answer finds it, and has   *)
(* its timer running, whatever was answered, evicted, deleted or started   *)
(* again meanwhile (the bridge's promises); only a dying server forgets.   *)
WaitingIsOnTheClock ==
    \A r \in Requests :
        request[r] # None /\ outcome[r] = None => r \in lost \/ (r \in pending /\ r \in timers)

(* A request that was settled by the only answer the server handled for it *)
(* has a card that says so, once it says anything.                         *)
CardTellsTheAnswer ==
    \A r \in Requests :
        by[r] = "person" /\ handled[r] = 1 => card[r] \in {"absent", "open", outcome[r]}

(* Every request is settled in the end, unless the server dies first.      *)
EveryRequestSettles ==
    \A r \in Requests : request[r] # None ~> outcome[r] # None \/ r \in lost

(* "one reliable channel to render pending approval/plan/question cards    *)
(* from" (session-manager.ts): a card that names a result names the one    *)
(* the SDK got.                                                            *)
CardTellsTheOutcome ==
    \A r \in Requests : card[r] \in AllAnswers => card[r] = outcome[r]

-----------------------------------------------------------------------------
(* What the repository also says, and what TLC refutes at once when one   *)
(* of these takes the place of the property a small configuration checks.  *)

(* The same comment: with no broadcast under way, a card with buttons is   *)
(* one of a request that is still pending.                                 *)
OpenCardIsPending ==
    \A r \in Requests :
        card[r] = "open" /\ row /\ ~ (\E b \in flight : b.id = r) /\ r \notin lost => r \in pending
=============================================================================
