----------------------- MODULE PermissionBridgeProofs -----------------------
(***************************************************************************)
(* What PermissionBridge promises for any number of requests, tabs,        *)
(* answers, LiveSessions and restarts.                                     *)
(***************************************************************************)
EXTENDS PermissionBridge, TLAPS

(* Only what has been asked waits, is shown, is announced or is settled.   *)
Asked ==
    /\ \A r \in Requests : request[r] = None => outcome[r] = None
    /\ \A r \in pending : request[r] \in Request
    /\ \A r \in Requests : card[r] # "absent" => request[r] \in Request
    /\ \A b \in flight : request[b.id] \in Request
    /\ \A t \in Tabs : \A r \in open[t] : request[r] \in Request

(* Every answer on its way was given by a person, to what was asked.       *)
Given ==
    \A t \in Tabs : \A i \in 1 .. Len(wire[t]) :
        /\ wire[t][i].value \in clicked[wire[t][i].id]
        /\ request[wire[t][i].id] \in Request

(* A result comes from handling an answer: before the first one nothing is *)
(* announced, and after only one, only that one is.                        *)
Announced ==
    \A r \in Requests :
        /\ by[r] = "person" => outcome[r] # None
        /\ handled[r] = 0 => /\ by[r] # "person"
                             /\ card[r] \in {"absent", "open"}
                             /\ \A b \in flight : b.id = r => b.value = "open"
        /\ by[r] = "person" /\ handled[r] = 1 =>
              /\ card[r] \in {"absent", "open", outcome[r]}
              /\ \A b \in flight : b.id = r => b.value \in {"open", outcome[r]}

(* The inductive invariant.                                                *)
Bridge ==
    /\ TypeOK
    /\ Asked
    /\ Given
    /\ Announced
    /\ ApprovalIsEarned
    /\ WaitingIsOnTheClock

(* The answers, listed.                                                    *)
LEMMA TheAnswers ==
    /\ AllAnswers = {"approve-once", "approve-for-session", "reject", "approved", "rejected", "yes", "no"}
    /\ \A k \in Kinds : Answers(k) \subseteq AllAnswers
<1>1. Answers("permission") = {"approve-once", "approve-for-session", "reject"}
  BY DEF Answers
<1>2. Answers("plan") = {"approved", "rejected"}
  BY DEF Answers
<1>3. Answers("question") = {"yes", "no"}
  BY DEF Answers
<1> QED
  BY <1>1, <1>2, <1>3, BridgeAssumption DEF AllAnswers

(* A timeout is a result, and never an approval (toPermissionResult); an   *)
(* answer is passed on as it is.                                           *)
LEMMA ResultOf ==
    ASSUME NEW k \in Kinds
    PROVE  /\ toResult(k, "timeout") \in Results /\ toResult(k, "timeout") \notin Approvals
           /\ \A a \in AllAnswers : toResult(k, a) = a
<1>1. toResult(k, "timeout") \in {"reject", "rejected", ""}
  BY BridgeAssumption DEF toResult
<1>2. \A a \in AllAnswers : a # "timeout"
  BY TheAnswers
<1>3. \A a \in AllAnswers : toResult(k, a) = a
  BY <1>2 DEF toResult
<1> QED
  BY <1>1, <1>3, TheAnswers DEF Results, Approvals

LEMMA BridgeInit == Init => Bridge
<1> SUFFICES ASSUME Init PROVE Bridge
  OBVIOUS
<1>1. TypeOK
  <2>1. <<>> \in Seq(Answer)
    OBVIOUS
  <2>2. wire \in [Tabs -> Seq(Answer)]
    BY <2>1 DEF Init
  <2>3. /\ clicks \in 0 .. MaxClicks /\ restarts \in 0 .. MaxRestarts /\ gen \in Nat /\ told \in Nat
        /\ handled \in [Requests -> Nat]
    BY BridgeAssumption DEF Init
  <2>4. /\ request \in [Requests -> Request \cup {None}]
        /\ outcome \in [Requests -> Results \cup {None}]
        /\ card \in [Requests -> AllAnswers \cup {"absent", "open"}]
        /\ by \in [Requests -> {"nobody", "policy", "person", "timeout"}]
    BY DEF Init
  <2>5. /\ open \in [Tabs -> SUBSET Requests]
        /\ clicked \in [Requests -> SUBSET AllAnswers]
        /\ mode \in Modes /\ isLive \in BOOLEAN /\ row \in BOOLEAN /\ del = "none"
        /\ pending = {} /\ timers = {} /\ flight = {} /\ tabs = {} /\ lost = {}
    BY DEF Init
  <2> QED
    BY <2>2, <2>3, <2>4, <2>5 DEF TypeOK
<1>2. Asked /\ Given /\ Announced /\ WaitingIsOnTheClock
  BY DEF Init, Asked, Given, Announced, WaitingIsOnTheClock
<1>3. ApprovalIsEarned
  BY NoneAssumption, TheAnswers DEF Init, ApprovalIsEarned, Approvals, Results
<1> QED
  BY <1>1, <1>2, <1>3 DEF Bridge

(* Resolving promises of requests that were asked with a timeout.          *)
LEMMA TimeoutSettles ==
    ASSUME Bridge, NEW S \in SUBSET Requests, \A r \in S : request[r] \in Request,
           Settle(S, "timeout", "timeout")
    PROVE  /\ outcome' \in [Requests -> Results \cup {None}]
           /\ by' \in [Requests -> {"nobody", "policy", "person", "timeout"}]
           /\ \A r \in S : outcome'[r] # None
           /\ \A r \in Requests : \/ outcome'[r] = outcome[r] /\ by'[r] = by[r]
                                  \/ /\ r \in S /\ outcome[r] = None /\ by'[r] = "timeout"
                                     /\ outcome'[r] \notin Approvals /\ outcome'[r] # None
<1>1. \A r \in S : /\ toResult(request[r].kind, "timeout") \in Results
                   /\ toResult(request[r].kind, "timeout") \notin Approvals
  BY ResultOf DEF Request
<1>2. None \notin Results
  BY NoneAssumption
<1> QED
  BY <1>1, <1>2 DEF Settle, Bridge, TypeOK

LEMMA BridgeNext == Bridge /\ [Next]_vars => Bridge'
<1> SUFFICES ASSUME Bridge, [Next]_vars PROVE Bridge'
  OBVIOUS
<1> USE DEF sessionVars, mapVars, eventVars, tabVars
<1>0. TypeOK /\ Asked /\ Given /\ Announced /\ ApprovalIsEarned /\ WaitingIsOnTheClock
  BY DEF Bridge
<1>1. ASSUME NEW r \in Requests, Ask(r) PROVE Bridge'
  <2>1. PICK q : /\ q \in Request
                 /\ q.deadly => q.kind = "permission"
                 /\ request[r] = None
                 /\ request' = [request EXCEPT ![r] = q]
                 /\ \/ /\ ByPolicy(q)
                       /\ outcome' = [outcome EXCEPT ![r] = Policy(q)]
                       /\ by' = [by EXCEPT ![r] = "policy"]
                       /\ ByPolicy(q)
                       /\ UNCHANGED <<pending, timers, flight, told>>
                    \/ /\ pending' = pending \cup {r}
                       /\ timers' = timers \cup {r}
                       /\ flight' = flight \cup {[n |-> told, id |-> r, value |-> "open"]}
                       /\ told' = told + 1
                       /\ UNCHANGED <<outcome, by>>
                 /\ UNCHANGED <<mode, gen, isLive, del, row, card, tabs, open, wire, clicks, clicked,
                                handled, restarts, lost>>
    BY <1>0, <1>1 DEF Ask, Tell, TypeOK, Request
  <2>2. Policy(q) \in Results /\ Policy(q) # None /\ (q.deadly => Policy(q) \notin Approvals)
    BY <2>1, TheAnswers, NoneAssumption DEF Policy, Results, Approvals
  <2>3. outcome[r] = None
    BY <1>0, <2>1 DEF Asked
  <2>4. TypeOK'
    <3>1. [n |-> told, id |-> r, value |-> "open"] \in Broadcast
      BY <1>0 DEF TypeOK, Broadcast
    <3>2. flight' \subseteq Broadcast /\ told' \in Nat
      BY <1>0, <2>1, <3>1 DEF TypeOK
    <3>3. outcome' \in [Requests -> Results \cup {None}]
      BY <1>0, <2>1, <2>2 DEF TypeOK
    <3>4. /\ by' \in [Requests -> {"nobody", "policy", "person", "timeout"}]
          /\ request' \in [Requests -> Request \cup {None}]
          /\ pending' \subseteq Requests /\ timers' \subseteq Requests
      BY <1>0, <2>1 DEF TypeOK
    <3> QED
      BY <1>0, <2>1, <3>2, <3>3, <3>4 DEF TypeOK
  <2>5. Asked'
    BY <1>0, <2>1, NoneAssumption DEF TypeOK, Asked
  <2>6. Given'
    <3>1. \A p \in Requests : request[p] \in Request => request'[p] \in Request
      BY <1>0, <2>1 DEF TypeOK
    <3>2. \A u \in Tabs : \A i \in 1 .. Len(wire[u]) : wire[u][i].id \in Requests
      <4> SUFFICES ASSUME NEW u \in Tabs, NEW i \in 1 .. Len(wire[u]) PROVE wire[u][i].id \in Requests
        OBVIOUS
      <4>1. wire[u] \in Seq(Answer)
        BY <1>0 DEF TypeOK
      <4>2. wire[u][i] \in Answer
        BY <4>1
      <4> QED
        BY <4>2 DEF Answer
    <3> QED
      BY <1>0, <2>1, <3>1, <3>2 DEF Given
  <2>7. Announced'
    BY <1>0, <2>1, <2>3 DEF TypeOK, Announced, Broadcast
  <2>8. ApprovalIsEarned'
    <3> SUFFICES ASSUME NEW p \in Requests, outcome'[p] \in Approvals
                 PROVE  outcome'[p] \in clicked[p] \/ (ByPolicy(request'[p]) /\ ~ request'[p].deadly)
      BY <2>1 DEF ApprovalIsEarned
    <3>1. CASE p = r
      <4>1. None \notin Approvals
        BY NoneAssumption, TheAnswers DEF Results, Approvals
      <4>2. ByPolicy(q) /\ outcome'[r] = Policy(q)
        BY <1>0, <2>1, <2>3, <3>1, <4>1 DEF TypeOK
      <4>3. request'[r] = q
        BY <1>0, <2>1 DEF TypeOK
      <4> QED
        BY <2>2, <3>1, <4>2, <4>3
    <3>2. CASE p # r
      <4>1. outcome'[p] = outcome[p] /\ request'[p] = request[p]
        BY <1>0, <2>1, <3>2 DEF TypeOK
      <4> QED
        BY <1>0, <4>1 DEF ApprovalIsEarned
    <3> QED
      BY <3>1, <3>2
  <2>9. WaitingIsOnTheClock'
    BY <1>0, <2>1, <2>2 DEF TypeOK, WaitingIsOnTheClock
  <2> QED
    BY <2>4, <2>5, <2>6, <2>7, <2>8, <2>9 DEF Bridge
<1>2. ASSUME NEW r \in Requests, Timeout(r) PROVE Bridge'
  <2>1. \A p \in {r} \cap pending : request[p] \in Request
    BY <1>0 DEF Asked
  <2>2. /\ outcome' \in [Requests -> Results \cup {None}]
        /\ by' \in [Requests -> {"nobody", "policy", "person", "timeout"}]
        /\ \A p \in {r} \cap pending : outcome'[p] # None
        /\ \A p \in Requests : \/ outcome'[p] = outcome[p] /\ by'[p] = by[p]
                               \/ /\ p \in {r} \cap pending /\ outcome[p] = None /\ by'[p] = "timeout"
                                  /\ outcome'[p] \notin Approvals /\ outcome'[p] # None
    BY <1>2, <2>1, TimeoutSettles DEF Timeout
  <2>3. /\ timers' = timers \ {r} /\ pending' = pending \ {r}
        /\ UNCHANGED <<mode, gen, isLive, del, row, request, card, flight, told, tabs, open, wire, clicks,
                       clicked, handled, restarts, lost>>
    BY <1>2 DEF Timeout
  <2>4. TypeOK'
    BY <1>0, <2>2, <2>3 DEF TypeOK
  <2>5. Asked' /\ Given'
    BY <1>0, <2>1, <2>2, <2>3, NoneAssumption DEF TypeOK, Asked, Given
  <2>6. Announced'
    BY <1>0, <2>2, <2>3 DEF TypeOK, Announced
  <2>7. ApprovalIsEarned'
    BY <1>0, <2>2, <2>3 DEF ApprovalIsEarned
  <2>8. WaitingIsOnTheClock'
    BY <1>0, <2>2, <2>3 DEF TypeOK, WaitingIsOnTheClock
  <2> QED
    BY <2>4, <2>5, <2>6, <2>7, <2>8 DEF Bridge
<1>3. ASSUME NEW t \in Tabs, Attach(t) PROVE Bridge'
  <2>1. TypeOK'
    <3>1. mode' \in Modes /\ gen' \in Nat /\ isLive' \in BOOLEAN
      <4>1. CASE UNCHANGED <<mode, gen, isLive>>
        BY <1>0, <4>1 DEF TypeOK
      <4>2. CASE mode' \in Modes /\ gen' = gen + 1 /\ isLive' = TRUE
        <5>1. gen \in Nat
          BY <1>0 DEF TypeOK
        <5> QED
          BY <4>2, <5>1
      <4> QED
        BY <1>3, <4>1, <4>2 DEF Attach
    <3>2. open' \in [Tabs -> SUBSET Requests] /\ tabs' \subseteq Tabs
      BY <1>0, <1>3 DEF Attach, TypeOK, OpenCards
    <3> QED
      BY <1>0, <1>3, <3>1, <3>2 DEF Attach, TypeOK
  <2>2. Asked' /\ Given'
    BY <1>0, <1>3 DEF Attach, TypeOK, Asked, Given, OpenCards
  <2>3. Announced' /\ ApprovalIsEarned' /\ WaitingIsOnTheClock'
    BY <1>0, <1>3 DEF Attach, Announced, ApprovalIsEarned, WaitingIsOnTheClock
  <2> QED
    BY <2>1, <2>2, <2>3 DEF Bridge
<1>4. ASSUME NEW t \in Tabs, Redraw(t) PROVE Bridge'
  <2>1. TypeOK'
    BY <1>0, <1>4 DEF Redraw, TypeOK, OpenCards
  <2>2. Asked' /\ Given'
    BY <1>0, <1>4 DEF Redraw, TypeOK, Asked, Given, OpenCards
  <2>3. Announced' /\ ApprovalIsEarned' /\ WaitingIsOnTheClock'
    BY <1>0, <1>4 DEF Redraw, Announced, ApprovalIsEarned, WaitingIsOnTheClock
  <2> QED
    BY <2>1, <2>2, <2>3 DEF Bridge
<1>5. ASSUME NEW t \in Tabs, Click(t) PROVE Bridge'
  <2>0. PICK r \in open[t] : \E a \in Answers(request[r].kind) :
          /\ wire' = [wire EXCEPT ![t] = Append(@, [id |-> r, value |-> a])]
          /\ clicked' = [clicked EXCEPT ![r] = @ \cup {a}]
    BY <1>5 DEF Click
  <2>1. PICK a \in Answers(request[r].kind) :
          /\ wire' = [wire EXCEPT ![t] = Append(@, [id |-> r, value |-> a])]
          /\ clicked' = [clicked EXCEPT ![r] = @ \cup {a}]
    BY <2>0
  <2>2. r \in Requests /\ request[r] \in Request
    BY <1>0 DEF TypeOK, Asked
  <2>3. a \in AllAnswers
    BY <2>2, TheAnswers DEF Request
  <2>4. PICK m : m = [id |-> r, value |-> a]
    OBVIOUS
  <2>5. m \in Answer /\ m.id = r /\ m.value = a
    BY <2>2, <2>3, <2>4 DEF Answer
  <2>6. /\ clicks < MaxClicks /\ clicks' = clicks + 1
        /\ UNCHANGED <<mode, gen, isLive, del, row, request, pending, timers, outcome, by, card, flight,
                       told, tabs, open, handled, restarts, lost>>
    BY <1>5 DEF Click
  <2>7. wire' \in [Tabs -> Seq(Answer)]
    BY <1>0, <2>1, <2>4, <2>5 DEF TypeOK
  <2>8. clicked' \in [Requests -> SUBSET AllAnswers]
    BY <1>0, <2>1, <2>2, <2>3 DEF TypeOK
  <2>9. TypeOK'
    BY <1>0, <2>6, <2>7, <2>8, BridgeAssumption DEF TypeOK
  <2>10. Asked'
    BY <1>0, <2>6 DEF Asked
  <2>11. \A p \in Requests : clicked[p] \subseteq clicked'[p]
    BY <1>0, <2>1 DEF TypeOK
  <2>12. Given'
    <3> SUFFICES ASSUME NEW u \in Tabs, NEW i \in 1 .. Len(wire'[u])
                 PROVE  /\ wire'[u][i].value \in clicked'[wire'[u][i].id]
                        /\ request[wire'[u][i].id] \in Request
      BY <2>6 DEF Given
    <3>1. wire[u] \in Seq(Answer)
      BY <1>0 DEF TypeOK
    <3>2. CASE i \in 1 .. Len(wire[u])
      <4>1. wire'[u][i] = wire[u][i]
        BY <1>0, <2>1, <2>4, <3>1, <3>2 DEF TypeOK
      <4>2. wire[u][i] \in Answer
        BY <3>1, <3>2
      <4> QED
        BY <1>0, <2>11, <3>2, <4>1, <4>2 DEF Given, Answer
    <3>3. CASE i \notin 1 .. Len(wire[u])
      <4>1. u = t /\ i = Len(wire[t]) + 1
        BY <1>0, <2>1, <2>4, <3>1, <3>3 DEF TypeOK
      <4>2. wire'[u][i] = m
        BY <1>0, <2>1, <2>4, <3>1, <4>1 DEF TypeOK
      <4>3. a \in clicked'[r]
        BY <1>0, <2>1, <2>2 DEF TypeOK
      <4> QED
        BY <2>2, <2>5, <4>2, <4>3
    <3> QED
      BY <3>2, <3>3
  <2>13. Announced' /\ WaitingIsOnTheClock'
    BY <1>0, <2>6 DEF Announced, WaitingIsOnTheClock
  <2>14. ApprovalIsEarned'
    BY <1>0, <2>6, <2>11 DEF ApprovalIsEarned
  <2> QED
    BY <2>9, <2>10, <2>12, <2>13, <2>14 DEF Bridge
<1>6. ASSUME NEW t \in Tabs, Leave(t) PROVE Bridge'
  <2>1. wire' \in [Tabs -> Seq(Answer)]
    <3>1. <<>> \in Seq(Answer)
      OBVIOUS
    <3> QED
      BY <1>0, <1>6, <3>1 DEF Leave, TypeOK
  <2>2. TypeOK'
    BY <1>0, <1>6, <2>1 DEF Leave, TypeOK
  <2>3. Asked'
    BY <1>0, <1>6 DEF Leave, TypeOK, Asked
  <2>4. Given'
    BY <1>0, <1>6 DEF Leave, TypeOK, Given
  <2>5. Announced' /\ ApprovalIsEarned' /\ WaitingIsOnTheClock'
    BY <1>0, <1>6 DEF Leave, Announced, ApprovalIsEarned, WaitingIsOnTheClock
  <2> QED
    BY <2>2, <2>3, <2>4, <2>5 DEF Bridge
<1>7. ASSUME NEW t \in Tabs, Respond(t) PROVE Bridge'
  <2>1. /\ wire[t] \in Seq(Answer) /\ wire[t] # <<>> /\ wire' = [wire EXCEPT ![t] = Tail(@)]
        /\ UNCHANGED <<mode, gen, isLive, del, row, request, timers, card, tabs, open, clicks, clicked,
                       restarts, lost>>
    BY <1>0, <1>7 DEF Respond, TypeOK
  <2>2. PICK m \in Answer : m = Head(wire[t])
    BY <2>1
  <2>3. m.id \in Requests /\ m.value \in AllAnswers
    BY <2>2 DEF Answer
  <2>4. m.value \in clicked[m.id] /\ request[m.id] \in Request
    <3>1. 1 \in 1 .. Len(wire[t]) /\ wire[t][1] = m
      BY <2>1, <2>2
    <3> QED
      BY <1>0, <3>1 DEF Given
  <2>5. wire' \in [Tabs -> Seq(Answer)]
    BY <1>0, <2>1 DEF TypeOK
  <2>6. Given'
    <3> SUFFICES ASSUME NEW u \in Tabs, NEW i \in 1 .. Len(wire'[u])
                 PROVE  /\ wire'[u][i].value \in clicked[wire'[u][i].id]
                        /\ request[wire'[u][i].id] \in Request
      BY <2>1 DEF Given
    <3>1. CASE u = t
      <4>1. i + 1 \in 1 .. Len(wire[t]) /\ wire'[u][i] = wire[t][i + 1]
        BY <1>0, <2>1, <3>1 DEF TypeOK
      <4> QED
        BY <1>0, <4>1 DEF Given
    <3>2. CASE u # t
      <4>1. wire'[u] = wire[u]
        BY <1>0, <2>1, <3>2 DEF TypeOK
      <4> QED
        BY <1>0, <4>1 DEF Given
    <3> QED
      BY <3>1, <3>2
  <2>7. CASE UNCHANGED <<outcome, by, pending, flight, told, handled>>
    <3>1. TypeOK'
      BY <1>0, <2>1, <2>5, <2>7 DEF TypeOK
    <3>2. Asked' /\ Announced' /\ ApprovalIsEarned' /\ WaitingIsOnTheClock'
      BY <1>0, <2>1, <2>7 DEF Asked, Announced, ApprovalIsEarned, WaitingIsOnTheClock
    <3> QED
      BY <2>6, <3>1, <3>2 DEF Bridge
  <2>8. CASE /\ Resolve(m.id, m.value)
             /\ Tell(m.id, m.value)
             /\ handled' = [handled EXCEPT ![m.id] = @ + 1]
    <3>1. PICK found : found = {m.id} \cap {p \in pending : request[p].gen = gen}
      OBVIOUS
    <3>2. /\ Settle(found, m.value, "person") /\ pending' = pending \ found
          /\ found \subseteq {m.id} /\ found \subseteq pending
      BY <2>8, <3>1 DEF Resolve
    <3>3. \A p \in found : toResult(request[p].kind, m.value) = m.value
      BY <1>0, <2>3, <3>2, ResultOf DEF Asked, Request
    <3>4. m.value # None /\ m.value \in Results
      BY <2>3, NoneAssumption DEF Results
    <3>5. /\ outcome' \in [Requests -> Results \cup {None}]
          /\ by' \in [Requests -> {"nobody", "policy", "person", "timeout"}]
          /\ \A p \in found : outcome'[p] # None
          /\ \A p \in Requests : \/ outcome'[p] = outcome[p] /\ by'[p] = by[p]
                                 \/ /\ p \in found /\ outcome[p] = None /\ by'[p] = "person"
                                    /\ outcome'[p] = m.value
      BY <1>0, <3>2, <3>3, <3>4 DEF Settle, TypeOK
    <3>6. PICK b : b = [n |-> told, id |-> m.id, value |-> m.value]
      OBVIOUS
    <3>7. /\ b \in Broadcast /\ b.id = m.id /\ b.value = m.value
          /\ flight' = flight \cup {b} /\ told' = told + 1
      BY <1>0, <2>3, <2>8, <3>6 DEF Tell, Broadcast, TypeOK
    <3>8. TypeOK'
      <4>1. flight' \subseteq Broadcast /\ told' \in Nat /\ pending' \subseteq Requests
        BY <1>0, <3>2, <3>7 DEF TypeOK
      <4>2. handled' \in [Requests -> Nat]
        BY <1>0, <2>3, <2>8 DEF TypeOK
      <4> QED
        BY <1>0, <2>1, <2>5, <3>5, <4>1, <4>2 DEF TypeOK
    <3>9. Asked'
      <4>1. \A p \in Requests : request[p] = None => outcome'[p] = None
        BY <1>0, <3>2, <3>5, NoneAssumption DEF Asked
      <4> QED
        BY <1>0, <2>1, <2>4, <3>2, <3>7, <4>1 DEF Asked
    <3>10. ApprovalIsEarned'
      BY <1>0, <2>1, <2>4, <3>2, <3>5 DEF ApprovalIsEarned
    <3>11. WaitingIsOnTheClock'
      BY <1>0, <2>1, <3>2, <3>5 DEF WaitingIsOnTheClock
    <3>12. Announced'
      <4> SUFFICES ASSUME NEW p \in Requests
                   PROVE  /\ by'[p] = "person" => outcome'[p] # None
                          /\ handled'[p] = 0 => /\ by'[p] # "person"
                                                /\ card[p] \in {"absent", "open"}
                                                /\ \A e \in flight' : e.id = p => e.value = "open"
                          /\ by'[p] = "person" /\ handled'[p] = 1 =>
                                /\ card[p] \in {"absent", "open", outcome'[p]}
                                /\ \A e \in flight' : e.id = p => e.value \in {"open", outcome'[p]}
        BY <2>1 DEF Announced
      <4>1. CASE p # m.id
        <5>1. outcome'[p] = outcome[p] /\ by'[p] = by[p] /\ handled'[p] = handled[p]
          BY <1>0, <2>8, <3>2, <3>5, <4>1 DEF TypeOK
        <5>2. \A e \in flight' : e.id = p => e \in flight
          BY <3>7, <4>1
        <5> QED
          BY <1>0, <5>1, <5>2 DEF Announced
      <4>2. CASE p = m.id
        <5>1. handled'[p] = handled[p] + 1 /\ handled[p] \in Nat
          BY <1>0, <2>3, <2>8, <4>2 DEF TypeOK
        <5>2. by'[p] = "person" => outcome'[p] # None
          BY <1>0, <3>4, <3>5 DEF Announced
        <5>3. ASSUME by'[p] = "person", handled'[p] = 1
              PROVE  /\ card[p] \in {"absent", "open", outcome'[p]}
                     /\ \A e \in flight' : e.id = p => e.value \in {"open", outcome'[p]}
          <6>1. handled[p] = 0
            BY <5>1, <5>3
          <6>2. /\ by[p] # "person"
                /\ card[p] \in {"absent", "open"}
                /\ \A e \in flight : e.id = p => e.value = "open"
            BY <1>0, <6>1 DEF Announced
          <6>3. outcome'[p] = m.value
            BY <3>5, <5>3, <6>2
          <6> QED
            BY <3>7, <6>2, <6>3
        <5> QED
          BY <5>1, <5>2, <5>3
      <4> QED
        BY <4>1, <4>2
    <3> QED
      BY <2>6, <3>8, <3>9, <3>10, <3>11, <3>12 DEF Bridge
  <2> QED
    BY <1>7, <2>2, <2>7, <2>8 DEF Respond
<1>8. ASSUME Store PROVE Bridge'
  <2>1. PICK b \in flight :
          /\ flight' = flight \ {b}
          /\ card' = [card EXCEPT ![b.id] = IF @ = "absent" /\ b.value # "open" THEN @ ELSE b.value]
          /\ UNCHANGED <<mode, gen, isLive, del, row, request, pending, timers, outcome, by, told, tabs,
                         open, wire, clicks, clicked, handled, restarts, lost>>
    BY <1>8 DEF Store
  <2>2. b.id \in Requests /\ b.value \in AllAnswers \cup {"open"}
    BY <1>0 DEF TypeOK, Broadcast
  <2>3. TypeOK'
    BY <1>0, <2>1, <2>2 DEF TypeOK
  <2>4. Asked' /\ Given'
    BY <1>0, <2>1, <2>2 DEF TypeOK, Asked, Given
  <2>5. Announced'
    BY <1>0, <2>1, <2>2 DEF TypeOK, Announced
  <2>6. ApprovalIsEarned' /\ WaitingIsOnTheClock'
    BY <1>0, <2>1 DEF ApprovalIsEarned, WaitingIsOnTheClock
  <2> QED
    BY <2>3, <2>4, <2>5, <2>6 DEF Bridge
<1>9. ASSUME FailStore PROVE Bridge'
  <2>1. TypeOK'
    BY <1>0, <1>9 DEF FailStore, TypeOK
  <2>2. Asked' /\ Given' /\ Announced' /\ ApprovalIsEarned' /\ WaitingIsOnTheClock'
    BY <1>0, <1>9 DEF FailStore, TypeOK, Asked, Given, Announced, ApprovalIsEarned, WaitingIsOnTheClock
  <2> QED
    BY <2>1, <2>2 DEF Bridge
<1>10. ASSUME Evict PROVE Bridge'
  <2>1. TypeOK'
    BY <1>0, <1>10 DEF Evict, TypeOK
  <2>2. Asked' /\ Given' /\ Announced' /\ ApprovalIsEarned' /\ WaitingIsOnTheClock'
    BY <1>0, <1>10 DEF Evict, TypeOK, Asked, Given, Announced, ApprovalIsEarned, WaitingIsOnTheClock
  <2> QED
    BY <2>1, <2>2 DEF Bridge
<1>11. ASSUME StopDeleted PROVE Bridge'
  <2>1. TypeOK'
    BY <1>0, <1>11 DEF StopDeleted, TypeOK
  <2>2. Asked' /\ Given' /\ Announced' /\ ApprovalIsEarned' /\ WaitingIsOnTheClock'
    BY <1>0, <1>11 DEF StopDeleted, TypeOK, Asked, Given, Announced, ApprovalIsEarned, WaitingIsOnTheClock
  <2> QED
    BY <2>1, <2>2 DEF Bridge
<1>12. ASSUME RemoveRow PROVE Bridge'
  <2>1. TypeOK'
    BY <1>0, <1>12 DEF RemoveRow, TypeOK
  <2>2. Asked' /\ Given' /\ Announced' /\ ApprovalIsEarned' /\ WaitingIsOnTheClock'
    BY <1>0, <1>12 DEF RemoveRow, TypeOK, Asked, Given, Announced, ApprovalIsEarned, WaitingIsOnTheClock
  <2> QED
    BY <2>1, <2>2 DEF Bridge
<1>13. ASSUME BeginDelete PROVE Bridge'
  <2>1. UNCHANGED <<mode, gen, isLive, row, request, pending, timers, card, flight, told, tabs, open, wire,
                    clicks, clicked, handled, restarts, lost>> /\ del' \in {"stopping", "removing"}
    BY <1>13 DEF BeginDelete
  <2>2. PICK S : S = {r \in pending : request[r].gen = gen}
    OBVIOUS
  <2>3. S \in SUBSET Requests /\ \A r \in S : request[r] \in Request
    BY <1>0, <2>2 DEF TypeOK, Asked
  <2>4. /\ outcome' \in [Requests -> Results \cup {None}]
        /\ by' \in [Requests -> {"nobody", "policy", "person", "timeout"}]
        /\ \A p \in Requests : \/ outcome'[p] = outcome[p] /\ by'[p] = by[p]
                               \/ /\ p \in S /\ outcome[p] = None /\ by'[p] = "timeout"
                                  /\ outcome'[p] \notin Approvals /\ outcome'[p] # None
    <3>1. CASE Settle(S, "timeout", "timeout")
      BY <2>3, <3>1, TimeoutSettles
    <3>2. CASE UNCHANGED <<outcome, by>>
      BY <1>0, <3>2 DEF TypeOK
    <3> QED
      BY <1>13, <2>2, <3>1, <3>2 DEF BeginDelete
  <2>5. TypeOK'
    BY <1>0, <2>1, <2>4 DEF TypeOK
  <2>6. Asked' /\ Given'
    BY <1>0, <2>1, <2>3, <2>4, NoneAssumption DEF TypeOK, Asked, Given
  <2>7. Announced'
    BY <1>0, <2>1, <2>4 DEF TypeOK, Announced
  <2>8. ApprovalIsEarned' /\ WaitingIsOnTheClock'
    BY <1>0, <2>1, <2>4 DEF ApprovalIsEarned, WaitingIsOnTheClock
  <2> QED
    BY <2>5, <2>6, <2>7, <2>8 DEF Bridge
<1>14. ASSUME Restart PROVE Bridge'
  <2>1. wire' \in [Tabs -> Seq(Answer)] /\ \A t \in Tabs : wire'[t] = <<>>
    <3>1. <<>> \in Seq(Answer)
      OBVIOUS
    <3> QED
      BY <1>14, <3>1 DEF Restart
  <2>2. TypeOK'
    <3>1. restarts' \in 0 .. MaxRestarts
      BY <1>0, <1>14, BridgeAssumption DEF Restart, TypeOK
    <3>2. lost' \subseteq Requests /\ open' \in [Tabs -> SUBSET Requests]
      BY <1>0, <1>14 DEF Restart, TypeOK
    <3> QED
      BY <1>0, <1>14, <2>1, <3>1, <3>2 DEF Restart, TypeOK
  <2>3. Asked' /\ Given'
    BY <1>0, <1>14, <2>1 DEF Restart, TypeOK, Asked, Given
  <2>4. Announced' /\ ApprovalIsEarned' /\ WaitingIsOnTheClock'
    BY <1>0, <1>14 DEF Restart, Announced, ApprovalIsEarned, WaitingIsOnTheClock
  <2> QED
    BY <2>2, <2>3, <2>4 DEF Bridge
<1>15. CASE UNCHANGED vars
  BY <1>0, <1>15 DEF vars, Bridge, TypeOK, Asked, Given, Announced, ApprovalIsEarned, WaitingIsOnTheClock
<1> QED
  BY <1>1, <1>2, <1>3, <1>4, <1>5, <1>6, <1>7, <1>8, <1>9, <1>10, <1>11, <1>12, <1>13, <1>14, <1>15 DEF Next

LEMMA BridgeHolds == Spec => []Bridge
  BY BridgeInit, BridgeNext, PTL DEF Spec

(* Every reachable state of the bridge is well typed; in particular the    *)
(* SDK is only ever given one of the results it knows.                     *)
THEOREM BridgeTypeCorrect == Spec => []TypeOK
<1>1. Bridge => TypeOK
  BY DEF Bridge
<1> QED
  BY <1>1, BridgeHolds, PTL

(* However requests, answers, timeouts, deletions, evictions and restarts  *)
(* interleave, an approval that reaches the SDK was given by a person for  *)
(* that request, or by the mode for a command that is not destructive.     *)
THEOREM FailSafe == Spec => []ApprovalIsEarned
<1>1. Bridge => ApprovalIsEarned
  BY DEF Bridge
<1> QED
  BY <1>1, BridgeHolds, PTL

(* A request that waits always has its entry and its timer, until the      *)
(* server dies.                                                            *)
THEOREM NeverForgotten == Spec => []WaitingIsOnTheClock
<1>1. Bridge => WaitingIsOnTheClock
  BY DEF Bridge
<1> QED
  BY <1>1, BridgeHolds, PTL

(* The card of a request that was settled by the only answer handled for   *)
(* it shows that answer.                                                   *)
THEOREM SingleAnswerIsShown == Spec => []CardTellsTheAnswer
<1>1. Bridge => CardTellsTheAnswer
  BY DEF Bridge, Announced, CardTellsTheAnswer
<1> QED
  BY <1>1, BridgeHolds, PTL
-----------------------------------------------------------------------------
(* The promise of Verdicts.                                                *)

(* A timeout is one of the refusals, whatever was asked, and so is what the *)
(* rules say to a destructive command.                                     *)
LEMMA TimeoutIsRefusal ==
    /\ \A k \in Kinds : toResult(k, "timeout") \in Refusals
    /\ "reject" \in Refusals
<1>1. ASSUME NEW k \in Kinds PROVE toResult(k, "timeout") \in {"reject", "rejected", ""}
  BY BridgeAssumption DEF toResult
<1> QED
  BY <1>1 DEF Refusals

(* Resolving with a timeout refuses the requests that still wait.          *)
LEMMA TimeoutRefuses ==
    ASSUME Bridge, NEW S \in SUBSET pending, Settle(S, "timeout", "timeout"),
           UNCHANGED <<request, clicked>>
    PROVE  Promise!Refuse({r \in S : outcome[r] = None})
<1> DEFINE T == {r \in S : outcome[r] = None}
           f == [r \in T |-> toResult(request[r].kind, "timeout")]
<1>1. T \subseteq Promise!Waiting
  BY NoneAssumption DEF Bridge, TypeOK, Asked, AskedFor, Promise!Waiting
<1>2. f \in [T -> Refusals]
  <2>1. \A r \in T : request[r].kind \in Kinds
    BY DEF Bridge, Asked, Request
  <2> QED
    BY <2>1, TimeoutIsRefusal
<1>3. outcome' = [r \in Requests |-> IF r \in T THEN f[r] ELSE outcome[r]]
  BY DEF Settle
<1>4. UNCHANGED <<AskedFor, RuledIn, clicked>>
  BY DEF AskedFor, RuledIn
<1> HIDE DEF f, T
<1>5. Promise!Refuse(T)
  BY <1>1, <1>2, <1>3, <1>4 DEF Promise!Refuse
<1> QED
  BY <1>5 DEF T

(* Every step asks, answers, gives one verdict, refuses what waits, or     *)
(* leaves all of it alone.                                                 *)
LEMMA StepKeepsVerdicts ==
    Bridge /\ [Next]_vars => [Promise!Next]_<<AskedFor, RuledIn, clicked, outcome>>
<1> SUFFICES ASSUME Bridge, [Next]_vars
             PROVE  [Promise!Next]_<<AskedFor, RuledIn, clicked, outcome>>
  OBVIOUS
<1> USE DEF sessionVars, mapVars, eventVars, tabVars
<1>0. /\ TypeOK /\ Asked /\ Given
      /\ request \in [Requests -> Request \cup {None}]
      /\ outcome \in [Requests -> Results \cup {None}]
      /\ pending \in SUBSET Requests
      /\ None \notin Request
  BY NoneAssumption DEF Bridge, TypeOK
<1>1. ASSUME NEW r \in Requests, Ask(r) PROVE Promise!Next
  <2>1. PICK q \in Request :
          /\ q.deadly => q.kind = "permission"
          /\ request[r] = None
          /\ request' = [request EXCEPT ![r] = q]
          /\ \/ ByPolicy(q) /\ outcome' = [outcome EXCEPT ![r] = Policy(q)]
             \/ ~ ByPolicy(q) /\ UNCHANGED outcome
          /\ UNCHANGED clicked
    <3>1. \A k \in Kinds, d \in BOOLEAN :
            [kind |-> k, mode |-> mode, deadly |-> d, gen |-> gen] \in Request
      BY <1>0 DEF Request, TypeOK
    <3> QED
      BY <1>1, <3>1 DEF Ask
  <2>2. r \notin AskedFor /\ AskedFor' = AskedFor \cup {r}
    BY <1>0, <2>1 DEF AskedFor
  <2>3. RuledIn' = IF ByPolicy(q) /\ ~ q.deadly THEN RuledIn \cup {r} ELSE RuledIn
    <3>1. request'[r] = q /\ \A o \in AskedFor : request'[o] = request[o]
      BY <1>0, <2>1, <2>2 DEF AskedFor
    <3>2. \A o \in Requests : o \in RuledIn' <=>
            /\ o \in AskedFor'
            /\ \/ request'[o].kind = "permission" /\ request'[o].mode = "auto"
               \/ request'[o].kind = "plan" /\ request'[o].mode # "planning"
            /\ ~ request'[o].deadly
      BY DEF RuledIn, AskedFor, ByPolicy
    <3>3. \A o \in Requests : o \in RuledIn <=>
            /\ o \in AskedFor
            /\ \/ request[o].kind = "permission" /\ request[o].mode = "auto"
               \/ request[o].kind = "plan" /\ request[o].mode # "planning"
            /\ ~ request[o].deadly
      BY DEF RuledIn, AskedFor, ByPolicy
    <3>4. RuledIn \subseteq Requests /\ RuledIn' \subseteq Requests
      BY DEF RuledIn, AskedFor
    <3> QED
      BY <2>2, <3>1, <3>2, <3>3, <3>4 DEF ByPolicy
  <2>4. Promise!New(r)
    BY <2>1, <2>2 DEF Promise!New
  <2>5. CASE ~ ByPolicy(q)
    <3>1. Promise!Ask(r)
      BY <2>1, <2>3, <2>4, <2>5 DEF Promise!Ask
    <3> QED
      BY <3>1 DEF Promise!Next
  <2>6. CASE ByPolicy(q) /\ ~ q.deadly
    <3>1. Policy(q) \in Approvals
      BY <2>6 DEF Policy, Approvals, ByPolicy
    <3>2. Promise!Pass(r)
      BY <2>1, <2>3, <2>4, <2>6, <3>1 DEF Promise!Pass
    <3> QED
      BY <3>2 DEF Promise!Next
  <2>7. CASE ByPolicy(q) /\ q.deadly
    <3>1. Policy(q) = "reject"
      BY <2>1, <2>7 DEF Policy
    <3>2. outcome' = [outcome EXCEPT ![r] = "reject"] /\ RuledIn' = RuledIn
      BY <2>1, <2>3, <2>7, <3>1
    <3>3. Promise!Ban(r)
      BY <2>4, <3>2, TimeoutIsRefusal DEF Promise!Ban
    <3> QED
      BY <3>3 DEF Promise!Next
  <2> QED
    BY <2>5, <2>6, <2>7
<1>2. ASSUME NEW r \in Requests, Timeout(r) PROVE Promise!Next
  <2>1. Promise!Refuse({x \in {r} \cap pending : outcome[x] = None})
    BY <1>2, TimeoutRefuses DEF Timeout
  <2> QED
    BY <2>1 DEF Promise!Next
<1>3. CASE BeginDelete
  <2>1. CASE UNCHANGED outcome
    BY <1>3, <2>1 DEF BeginDelete, AskedFor, RuledIn
  <2>2. CASE Settle({r \in pending : request[r].gen = gen}, "timeout", "timeout")
    <3> DEFINE S == {r \in pending : request[r].gen = gen}
    <3>1. Promise!Refuse({x \in S : outcome[x] = None})
      BY <1>3, <2>2, TimeoutRefuses DEF BeginDelete
    <3>2. {x \in S : outcome[x] = None} \in SUBSET Requests
      BY <1>0
    <3>3. Promise!Next
      BY <3>1, <3>2 DEF Promise!Next
    <3> QED
      BY <3>3
  <2> QED
    BY <1>3, <2>1, <2>2 DEF BeginDelete
<1>4. ASSUME NEW t \in Tabs, Click(t) PROVE Promise!Next
  <2>1. PICK r \in open[t] : \E a \in Answers(request[r].kind) :
          clicked' = [clicked EXCEPT ![r] = @ \cup {a}]
    BY <1>4 DEF Click
  <2>2. r \in Requests /\ request[r] \in Request
    BY <1>0, <1>4 DEF TypeOK, Asked
  <2>3. PICK a \in AllAnswers : clicked' = [clicked EXCEPT ![r] = @ \cup {a}]
    BY <2>1, <2>2, TheAnswers DEF Request
  <2>4. Promise!Say(r, a)
    BY <1>0, <1>4, <2>2, <2>3 DEF Click, AskedFor, RuledIn, Promise!Say
  <2> QED
    BY <2>2, <2>3, <2>4 DEF Promise!Next
<1>5. ASSUME NEW t \in Tabs, Respond(t) PROVE [Promise!Next]_<<AskedFor, RuledIn, clicked, outcome>>
  <2>1. UNCHANGED <<AskedFor, RuledIn, clicked>>
    BY <1>5 DEF Respond, AskedFor, RuledIn
  <2>2. CASE UNCHANGED outcome
    BY <2>1, <2>2
  <2>3. CASE Resolve(Head(wire[t]).id, Head(wire[t]).value)
    <3> DEFINE m == Head(wire[t])
    <3>1. /\ m \in Answer /\ request[m.id] \in Request /\ m.value \in clicked[m.id]
      <4>1. wire[t] \in Seq(Answer) /\ wire[t] # <<>>
        BY <1>0, <1>5 DEF TypeOK, Respond
      <4>2. m = wire[t][1] /\ 1 \in 1 .. Len(wire[t]) /\ m \in Answer
        BY <4>1
      <4> QED
        BY <1>0, <4>2 DEF Given
    <3>2. /\ m.id \in Requests /\ m.value \in AllAnswers
          /\ toResult(request[m.id].kind, m.value) = m.value
      BY <3>1, ResultOf DEF Answer, Request
    <3> HIDE DEF m
    <3>3. \/ UNCHANGED outcome
          \/ outcome[m.id] = None /\ outcome' = [outcome EXCEPT ![m.id] = m.value]
      <4> DEFINE found == {m.id} \cap {p \in pending : request[p].gen = gen}
      <4>1. outcome' = [r \in Requests |-> IF r \in {x \in found : outcome[x] = None}
                                              THEN toResult(request[r].kind, m.value) ELSE outcome[r]]
        BY <2>3 DEF Resolve, Settle, m
      <4>2. CASE m.id \in found /\ outcome[m.id] = None
        BY <1>0, <3>2, <4>1, <4>2
      <4>3. CASE ~ (m.id \in found /\ outcome[m.id] = None)
        BY <1>0, <4>1, <4>3
      <4> QED
        BY <4>2, <4>3
    <3>4. CASE UNCHANGED outcome
      BY <2>1, <3>4
    <3>5. CASE outcome[m.id] = None /\ outcome' = [outcome EXCEPT ![m.id] = m.value]
      <4>1. m.id \in Promise!Waiting
        BY <1>0, <3>1, <3>2, <3>5 DEF Promise!Waiting, AskedFor
      <4>2. PICK r \in Requests, a \in AllAnswers : r = m.id /\ a = m.value
        BY <3>2
      <4>3. Promise!Heed(r)
        BY <2>1, <3>1, <3>5, <4>1, <4>2 DEF Promise!Heed
      <4>4. Promise!Next
        BY <4>3 DEF Promise!Next
      <4> QED
        BY <4>4
    <3> QED
      BY <3>3, <3>4, <3>5
  <2> QED
    BY <1>5, <2>2, <2>3 DEF Respond
<1>6. CASE UNCHANGED <<request, outcome, clicked>>
  BY <1>6 DEF AskedFor, RuledIn
<1> QED
  BY <1>1, <1>2, <1>3, <1>4, <1>5, <1>6 DEF Next, Store, FailStore, Attach, Redraw, Leave,
     Evict, StopDeleted, RemoveRow, Restart, vars

(* Timers, tabs, deletion, eviction, restarts: of all that races for a     *)
(* request exactly one thing decides it, for good, and it is an answer to  *)
(* that request, what the mode says, or a refusal.                         *)
THEOREM VerdictsAreFinal == Spec => KeepsVerdicts
<1>1. Init => Promise!Init
  BY DEF Init, AskedFor, RuledIn, Promise!Init
<1> QED
  BY <1>1, BridgeInit, BridgeNext, StepKeepsVerdicts, PTL DEF Spec, KeepsVerdicts, Promise!Spec
=============================================================================
