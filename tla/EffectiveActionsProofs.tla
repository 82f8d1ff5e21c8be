----------------------- MODULE EffectiveActionsProofs -----------------------
(***************************************************************************)
(* What the ARM client and the permission decision on top of it promise,   *)
(* for any number of roles, slots, retries and pages.                      *)
(***************************************************************************)
EXTENDS EffectiveActions, FiniteSetTheorems, TLAPS

(* What Azure holds.                                                       *)
Truth ==
  /\ there \in [Calls -> Nat \ {0}]
  /\ grant \in [Roles -> Grants]
  /\ onPage \in [Roles -> Nat \ {0}]
  /\ \A r \in Roles : onPage[r] <= there[Assignments]
  /\ assignedAt \in [Roles -> Places]
  /\ deny \in Nat /\ deny <= there[DenyList] /\ denyForm \in Forms

(* A call that is under way has pages left to read, and may read them; one *)
(* that sleeps may retry.                                                  *)
PagesOK ==
  \A c \in Calls :
    /\ page[c] <= there[c]
    /\ stage[c] = "idle" => page[c] = 0
    /\ stage[c] # "done" => page[c] < there[c] /\ page[c] < MaxPages
    /\ stage[c] = "asleep" => attempt[c] < MaxRetries

(* The order in which the function asks.                                   *)
Started == stage[Assignments] = "done" /\ result[Assignments] \in Listed
OrderOK ==
  /\ phase = "identity" => \A c \in Calls : stage[c] = "idle"
  /\ phase = "assignments" => \A c \in Calls \ {Assignments} : stage[c] = "idle"
  /\ phase = "definitions" => Started /\ stage[DenyList] = "idle" /\ \A r \in Seen : stage[r] # "idle"
  /\ phase = "denies" => Started /\ stage[DenyList] # "idle" /\ \A r \in Seen : stage[r] = "done"
  /\ phase = "over" => \A c \in Calls : stage[c] \in {"idle", "done"}
  /\ phase # "definitions" /\ phase # "denies" /\ phase # "over" => settled = {}
  /\ \A r \in settled : stage[r] = "done"

IInv == Truth /\ TypeOK /\ PagesOK /\ OrderOK /\ WholeIsWhole /\ DecisionIsTrue

Held == {c \in Calls : stage[c] \in Holding}

-----------------------------------------------------------------------------
(* One request takes a slot, keeps it or gives it back.                    *)
LEMMA SlotsCount ==
  ASSUME NEW H, H \subseteq Calls, NEW c \in Calls
  PROVE  /\ IsFiniteSet(H) /\ Cardinality(H) \in Nat
         /\ c \notin H => Cardinality(H \cup {c}) = Cardinality(H) + 1
         /\ c \in H => Cardinality(H \ {c}) = Cardinality(H) - 1
<1>1. IsFiniteSet(H)
  BY FS_Subset, ArmClientAssumption
<1>2. Cardinality(H) \in Nat
  BY <1>1, FS_CardinalityType
<1>3. c \notin H => Cardinality(H \cup {c}) = Cardinality(H) + 1
  BY <1>1, FS_AddElement
<1>4. c \in H => Cardinality(H \ {c}) = Cardinality(H) - 1
  BY <1>1, FS_RemoveElement
<1> QED
  BY <1>1, <1>2, <1>3, <1>4

(* What a step of call c does, whichever it is: where the call gets to, and *)
(* what becomes of its slot.                                               *)
Slot(c, s) ==
  \/ (stage[c] \in Holding <=> s \in Holding) /\ taken' = taken
  \/ stage[c] \in Holding /\ s \notin Holding /\ taken' = taken - 1
  \/ stage[c] \notin Holding /\ s \in Holding /\ taken < Slots /\ taken' = taken + 1
Allowed(c, s, a, p, r) ==
  /\ stage[c] \notin {"idle", "done"} /\ s \in Stages \ {"idle"}
  /\ a \in 0 .. MaxRetries /\ (s = "asleep" => a < MaxRetries)
  /\ p \in {page[c], page[c] + 1}
  /\ s # "done" => p = page[c] \/ (p # there[c] /\ p # MaxPages)
  /\ r \in Listed \cup Errors \cup {Nothing} /\ (s = "done" <=> r # Nothing)
  /\ r = "whole" => p = there[c]
Move(c, s, a, p, r) ==
  /\ Allowed(c, s, a, p, r) /\ Slot(c, s)
  /\ stage' = [stage EXCEPT ![c] = s]
  /\ attempt' = [attempt EXCEPT ![c] = a]
  /\ page' = [page EXCEPT ![c] = p]
  /\ result' = [result EXCEPT ![c] = r]
  /\ UNCHANGED <<there, cancelled>>
Moves(c) == \E s, a, p, r : Move(c, s, a, p, r)

LEMMA Unmoved ==
  ASSUME CallsTypeOK, NEW c \in Calls
  PROVE  /\ attempt = [attempt EXCEPT ![c] = attempt[c]] /\ attempt[c] \in 0 .. MaxRetries
         /\ page = [page EXCEPT ![c] = page[c]]
         /\ result = [result EXCEPT ![c] = result[c]]
         /\ stage[c] # "done" => result[c] = Nothing
         /\ stage[c] \in Stages
  BY DEF CallsTypeOK

LEMMA Failing ==
  ASSUME CallsTypeOK, NEW c \in Calls, stage[c] \in Holding, NEW err \in Errors, Fail(c, err)
  PROVE  Moves(c)
<1>1. Move(c, "done", attempt[c], page[c], err)
  <2>1. Allowed(c, "done", attempt[c], page[c], err)
    BY Unmoved, NothingAssumption DEF Allowed, Holding, Stages, Listed, Errors
  <2>2. Slot(c, "done")
    BY DEF Slot, Fail, Holding
  <2> QED
    BY <2>1, <2>2, Unmoved DEF Move, Fail
<1> QED
  BY <1>1 DEF Moves

LEMMA CallStepMoves ==
  ASSUME CallsTypeOK, PagesOK, NEW c \in Calls, CallStep(c)
  PROVE  Moves(c)
<1> USE Unmoved, NothingAssumption DEF Moves
<1>1. MaxRetries \in Nat /\ MaxPages \in Nat
  BY ArmClientAssumption
<1>2. ASSUME stage[c] = "queued", NEW err \in {"not allowed", "cancelled"},
             stage' = [stage EXCEPT ![c] = "done"], result' = [result EXCEPT ![c] = err],
             UNCHANGED <<attempt, page, there, taken, cancelled>>
      PROVE  Move(c, "done", attempt[c], page[c], err)
  BY <1>2 DEF Move, Allowed, Slot, Holding, Stages, Listed, Errors
<1>3. ASSUME NEW s \in Stages \ {"idle", "done", "asleep"}, stage[c] \notin {"idle", "done"},
             stage' = [stage EXCEPT ![c] = s], Slot(c, s), UNCHANGED <<attempt, page, result, there, cancelled>>
      PROVE  Move(c, s, attempt[c], page[c], Nothing)
  BY <1>3 DEF Move, Allowed, Listed
<1>4. CASE NotOnAllowList(c) \/ NoSlot(c)
  BY <1>2, <1>4 DEF NotOnAllowList, NoSlot
<1>5. CASE Acquire(c)
  <2>1. Slot(c, "token")
    BY <1>5 DEF Acquire, Slot, Holding
  <2> QED
    BY <1>3, <1>5, <2>1 DEF Acquire, Stages
<1>6. CASE Token(c) \/ Mint(c)
  <2>1. PICK s \in {"sent", "minting"} : stage' = [stage EXCEPT ![c] = s]
    BY <1>6 DEF Token, Mint
  <2>2. Slot(c, s)
    BY <1>6 DEF Token, Mint, Slot, Holding
  <2> QED
    BY <1>3, <1>6, <2>1, <2>2 DEF Token, Mint, Stages
<1>7. CASE NoToken(c)
  BY <1>7, Failing DEF NoToken, Holding, Errors
<1>8. CASE PageRead(c)
  <2>1. /\ stage[c] = "sent" /\ page' = [page EXCEPT ![c] = page[c] + 1] /\ taken' = taken - 1
        /\ attempt' = [attempt EXCEPT ![c] = 0] /\ UNCHANGED <<there, cancelled>>
        /\ stage' = [stage EXCEPT ![c] = IF Conclusion(c) # Nothing THEN "done" ELSE Requested(c)]
        /\ result' = [result EXCEPT ![c] = IF Conclusion(c) # Nothing THEN Conclusion(c) ELSE Refused(c)]
    BY <1>8 DEF PageRead, Freed
  <2>2. ASSUME NEW s \in {"done", "queued"}, NEW r \in Listed \cup {"cancelled", Nothing}, s = "done" <=> r # Nothing,
               stage' = [stage EXCEPT ![c] = s], result' = [result EXCEPT ![c] = r],
               s = "queued" => page[c] + 1 # there[c] /\ page[c] + 1 # MaxPages,
               r = "whole" => page[c] + 1 = there[c]
        PROVE  Move(c, s, 0, page[c] + 1, r)
    <3>1. 0 \in 0 .. MaxRetries
      BY <1>1
    <3>2. Allowed(c, s, 0, page[c] + 1, r)
      BY <2>1, <2>2, <3>1 DEF Allowed, Stages, Listed, Errors
    <3>3. Slot(c, s)
      BY <2>1 DEF Slot, Holding
    <3> QED
      BY <2>1, <2>2, <3>2, <3>3 DEF Move
  <2>3. CASE page[c] + 1 = there[c]
    <3>1. Conclusion(c) = "whole"
      BY <2>3 DEF Conclusion
    <3> QED
      BY <2>1, <2>2, <2>3, <3>1 DEF Listed
  <2>4. CASE page[c] + 1 # there[c] /\ page[c] + 1 = MaxPages
    <3>1. Conclusion(c) = "cut"
      BY <2>4 DEF Conclusion
    <3> QED
      BY <2>1, <2>2, <2>4, <3>1 DEF Listed
  <2>5. CASE page[c] + 1 # there[c] /\ page[c] + 1 # MaxPages
    <3>1. Conclusion(c) = Nothing
      BY <2>5 DEF Conclusion
    <3>2. /\ stage' = [stage EXCEPT ![c] = Requested(c)] /\ result' = [result EXCEPT ![c] = Refused(c)]
          /\ Requested(c) \in {"done", "queued"} /\ Refused(c) \in {"cancelled", Nothing}
          /\ Requested(c) = "done" <=> Refused(c) # Nothing
      BY <2>1, <3>1 DEF Requested, Refused, Errors
    <3>3. Refused(c) # "whole"
      BY <3>2 DEF Listed
    <3> QED
      BY <2>2, <2>5, <3>2, <3>3
  <2> QED
    BY <2>3, <2>4, <2>5
<1>9. CASE LinkLeaves(c) \/ Rejected(c) \/ Failed(c) \/ SendCut(c) \/ SleepCut(c)
  BY <1>9, Failing DEF LinkLeaves, Rejected, Failed, SendCut, SleepCut, Holding, Errors
<1>10. CASE Throttled(c)
  <2>1. Allowed(c, "asleep", attempt[c], page[c], Nothing) /\ Slot(c, "asleep")
    BY <1>10 DEF Throttled, MayRetry, Allowed, Slot, Holding, Stages, Listed
  <2>2. Move(c, "asleep", attempt[c], page[c], Nothing)
    BY <1>10, <2>1 DEF Throttled, Move
  <2> QED
    BY <2>2
<1>11. CASE WakeUp(c)
  <2>1. attempt[c] + 1 \in 0 .. MaxRetries
    BY <1>1, <1>11 DEF WakeUp, PagesOK
  <2>2. Allowed(c, "token", attempt[c] + 1, page[c], Nothing) /\ Slot(c, "token")
    BY <1>11, <2>1 DEF WakeUp, Allowed, Slot, Holding, Stages, Listed
  <2>3. Move(c, "token", attempt[c] + 1, page[c], Nothing)
    BY <1>11, <2>2 DEF WakeUp, Move
  <2> QED
    BY <2>3
<1> QED
  BY <1>4, <1>5, <1>6, <1>7, <1>8, <1>9, <1>10, <1>11 DEF CallStep, Respond

-----------------------------------------------------------------------------
(* The client keeps its books whatever a call does.                        *)
LEMMA ClientKeeps ==
  ASSUME Truth, CallsTypeOK, PagesOK, WholeIsWhole, NEW c \in Calls, Moves(c)
  PROVE  CallsTypeOK' /\ PagesOK' /\ WholeIsWhole'
<1>1. PICK s, a, p, r : Move(c, s, a, p, r)
  BY DEF Moves
<1>2. /\ stage' = [stage EXCEPT ![c] = s] /\ attempt' = [attempt EXCEPT ![c] = a]
      /\ page' = [page EXCEPT ![c] = p] /\ result' = [result EXCEPT ![c] = r]
      /\ UNCHANGED <<there, cancelled>>
      /\ Allowed(c, s, a, p, r) /\ Slot(c, s)
  BY <1>1 DEF Move
<1>3. /\ stage[c] \notin {"idle", "done"} /\ s \in Stages \ {"idle"}
      /\ a \in 0 .. MaxRetries /\ (s = "asleep" => a < MaxRetries)
      /\ p \in {page[c], page[c] + 1}
      /\ s # "done" => p = page[c] \/ (p # there[c] /\ p # MaxPages)
      /\ r \in Listed \cup Errors \cup {Nothing} /\ (s = "done" <=> r # Nothing)
      /\ r = "whole" => p = there[c]
  BY <1>2 DEF Allowed
<1>4. /\ stage \in [Calls -> Stages] /\ attempt \in [Calls -> 0 .. MaxRetries] /\ page \in [Calls -> 0 .. MaxPages]
      /\ result \in [Calls -> Listed \cup Errors \cup {Nothing}]
      /\ taken = Cardinality(Held) /\ taken <= Slots
  BY DEF CallsTypeOK, Held
<1>5. /\ MaxRetries \in Nat /\ MaxPages \in Nat \ {0} /\ Slots \in Nat \ {0} /\ there \in [Calls -> Nat \ {0}]
      /\ page[c] < there[c] /\ page[c] < MaxPages
  BY <1>3, ArmClientAssumption DEF Truth, PagesOK
<1>6. p \in 0 .. MaxPages /\ p <= there[c] /\ (s # "done" => p < there[c] /\ p < MaxPages)
  BY <1>3, <1>4, <1>5
<1>7. taken' = Cardinality(Held)' /\ taken' <= Slots
  <2>1. Held' = IF s \in Holding THEN Held \cup {c} ELSE Held \ {c}
    BY <1>2, <1>4 DEF Held
  <2>2. Held \subseteq Calls /\ (c \in Held <=> stage[c] \in Holding)
    BY DEF Held
  <2>3. Cardinality(Held) \in Nat
    BY <2>2, SlotsCount
  <2>4. CASE (stage[c] \in Holding <=> s \in Holding) /\ taken' = taken
    BY <1>4, <2>1, <2>2, <2>4
  <2>5. CASE stage[c] \in Holding /\ s \notin Holding /\ taken' = taken - 1
    BY <1>4, <1>5, <2>1, <2>2, <2>3, <2>5, SlotsCount
  <2>6. CASE stage[c] \notin Holding /\ s \in Holding /\ taken < Slots /\ taken' = taken + 1
    BY <1>4, <1>5, <2>1, <2>2, <2>3, <2>6, SlotsCount
  <2> QED
    BY <1>2, <2>4, <2>5, <2>6 DEF Slot
<1>8. /\ stage' \in [Calls -> Stages] /\ attempt' \in [Calls -> 0 .. MaxRetries]
      /\ page' \in [Calls -> 0 .. MaxPages] /\ result' \in [Calls -> Listed \cup Errors \cup {Nothing}]
      /\ cancelled' \in BOOLEAN
      /\ \A d \in Calls : stage'[d] = "done" <=> result'[d] # Nothing
  BY <1>2, <1>3, <1>4, <1>6 DEF CallsTypeOK
<1>9. CallsTypeOK'
  BY <1>7, <1>8 DEF CallsTypeOK, Held
<1>10. PagesOK'
  BY <1>2, <1>3, <1>4, <1>5, <1>6 DEF PagesOK
<1>11. WholeIsWhole'
  BY <1>2, <1>3, <1>4, <1>5 DEF WholeIsWhole
<1> QED
  BY <1>9, <1>10, <1>11

LEMMA AskKeeps ==
  ASSUME Truth, CallsTypeOK, PagesOK, WholeIsWhole, NEW S, Ask(S)
  PROVE  CallsTypeOK' /\ PagesOK' /\ WholeIsWhole'
<1>1. /\ \A c \in S : stage[c] = "idle"
      /\ stage' = [c \in Calls |-> IF c \in S THEN Requested(c) ELSE stage[c]]
      /\ result' = [c \in Calls |-> IF c \in S THEN Refused(c) ELSE result[c]]
      /\ UNCHANGED <<attempt, page, there, taken, cancelled>>
  BY DEF Ask
<1>2. \A c : /\ Requested(c) \in {"done", "queued"} /\ Refused(c) \in {"cancelled", Nothing}
             /\ Requested(c) = "done" <=> Refused(c) # Nothing
  BY NothingAssumption DEF Requested, Refused, Errors
<1>3. stage \in [Calls -> Stages] /\ result \in [Calls -> Listed \cup Errors \cup {Nothing}]
  BY DEF CallsTypeOK
<1>4. Held' = Held
  BY <1>1, <1>2 DEF Held, Holding
<1>5. stage' \in [Calls -> Stages] /\ result' \in [Calls -> Listed \cup Errors \cup {Nothing}]
  BY <1>1, <1>2, <1>3 DEF Stages, Errors
<1>6. \A c \in Calls : stage'[c] = "done" <=> result'[c] # Nothing
  BY <1>1, <1>2 DEF CallsTypeOK
<1>7. CallsTypeOK'
  BY <1>1, <1>4, <1>5, <1>6 DEF CallsTypeOK, Held
<1>8. PagesOK'
  BY <1>1, <1>2 DEF PagesOK
<1>9. \A c \in S : Refused(c) # "whole"
  BY <1>2, NothingAssumption DEF Listed
<1>10. WholeIsWhole'
  BY <1>1, <1>9 DEF WholeIsWhole
<1> QED
  BY <1>7, <1>8, <1>10

-----------------------------------------------------------------------------
LEMMA InitHolds == Init => IInv
<1> SUFFICES ASSUME Init PROVE IInv
  OBVIOUS
<1>1. /\ stage = [c \in Calls |-> "idle"] /\ attempt = [c \in Calls |-> 0] /\ page = [c \in Calls |-> 0]
      /\ result = [c \in Calls |-> Nothing] /\ taken = 0 /\ cancelled = FALSE
      /\ there \in [Calls -> UNION {PagesThere[c] : c \in Calls}] /\ \A c \in Calls : there[c] \in PagesThere[c]
  BY DEF Init, CallsInit
<1>2. there \in [Calls -> Nat \ {0}]
  BY <1>1, ArmClientAssumption
<1>3. Assignments \in Calls /\ DenyList \in Calls /\ Roles \subseteq Calls /\ MaxPages \in Nat \ {0} /\ MaxRetries \in Nat /\ Slots \in Nat \ {0}
  BY ArmClientAssumption, EffectiveActionsAssumption
<1>4. Truth
  BY <1>2, <1>3, FormsAssumption DEF Init, Truth
<1>5. CallsTypeOK
  <2>1. Held = {}
    BY <1>1 DEF Held, Holding
  <2>2. Cardinality({}) = 0
    BY FS_EmptySet
  <2>3. taken = Cardinality(Held) /\ taken <= Slots
    BY <1>1, <1>3, <2>1, <2>2
  <2>4. /\ stage \in [Calls -> Stages] /\ cancelled \in BOOLEAN
        /\ result \in [Calls -> Listed \cup Errors \cup {Nothing}]
    BY <1>1 DEF Stages
  <2>6. 0 \in 0 .. MaxRetries /\ 0 \in 0 .. MaxPages
    BY <1>3
  <2>7. attempt \in [Calls -> 0 .. MaxRetries] /\ page \in [Calls -> 0 .. MaxPages]
    BY <1>1, <2>6
  <2>5. \A c \in Calls : stage[c] = "done" <=> result[c] # Nothing
    BY <1>1
  <2> QED
    BY <2>3, <2>4, <2>5, <2>7 DEF CallsTypeOK, Held
<1>6. TypeOK
  BY <1>1, <1>3, <1>5, DecisionsAssumption DEF Init, TypeOK, Phases
<1>7. PagesOK
  BY <1>1, <1>2, <1>3 DEF PagesOK
<1>8. OrderOK
  BY <1>1 DEF Init, OrderOK
<1>9. WholeIsWhole /\ DecisionIsTrue
  BY <1>1, NothingAssumption, DecisionsAssumption DEF Init, WholeIsWhole, DecisionIsTrue, Listed, Decisions
<1> QED
  BY <1>4, <1>6, <1>7, <1>8, <1>9 DEF IInv

-----------------------------------------------------------------------------
(* A call goes on, or the context ends, while the function waits.          *)
Waits == UNCHANGED <<grant, onPage, assignedAt, deny, denyForm, phase, settled, fatal, decision>>

LEMMA CallKeeps ==
  ASSUME IInv, phase # "over", Waits, NEW c \in Calls, CallStep(c)
  PROVE  IInv'
<1>1. Moves(c)
  BY CallStepMoves DEF IInv, TypeOK
<1>2. CallsTypeOK' /\ PagesOK' /\ WholeIsWhole'
  BY <1>1, ClientKeeps DEF IInv, TypeOK
<1>3. PICK s, a, p, r : Move(c, s, a, p, r)
  BY <1>1 DEF Moves
<1>4. /\ stage[c] \notin {"idle", "done"} /\ s # "idle" /\ p \in {page[c], page[c] + 1}
      /\ stage' = [stage EXCEPT ![c] = s] /\ page' = [page EXCEPT ![c] = p] /\ result' = [result EXCEPT ![c] = r]
      /\ there' = there
  BY <1>3 DEF Move, Allowed
<1>5. stage \in [Calls -> Stages] /\ page \in [Calls -> 0 .. MaxPages] /\ result \in [Calls -> Listed \cup Errors \cup {Nothing}]
  BY DEF IInv, TypeOK, CallsTypeOK
<1>6. /\ \A d \in Calls : (stage'[d] = "idle" <=> stage[d] = "idle") /\ page[d] <= page'[d]
      /\ \A d \in Calls : stage[d] = "done" => d # c /\ stage'[d] = "done" /\ result'[d] = result[d] /\ page'[d] = page[d]
  BY <1>4, <1>5, ArmClientAssumption
<1>7. Assignments \in Calls /\ DenyList \in Calls /\ Roles \subseteq Calls /\ Assignments # DenyList
      /\ Assignments \notin Roles /\ DenyList \notin Roles
  BY EffectiveActionsAssumption
<1>8. UNCHANGED <<grant, onPage, assignedAt, deny, denyForm, phase, settled, fatal, decision>>
  BY DEF Waits
<1>9. Truth'
  BY <1>4, <1>8 DEF IInv, Truth
<1>10. Seen \subseteq Seen' /\ (stage[Assignments] = "done" => Seen' = Seen)
  <2>1. page[Assignments] \in Nat /\ page'[Assignments] \in Nat /\ page[Assignments] <= page'[Assignments]
    BY <1>4, <1>5, <1>7, ArmClientAssumption
  <2>2. \A role \in Roles : onPage[role] \in Nat
    BY DEF IInv, Truth
  <2>3. stage[Assignments] = "done" => page'[Assignments] = page[Assignments]
    BY <1>6, <1>7
  <2> QED
    BY <1>8, <2>1, <2>2, <2>3 DEF Seen, scopeCovers
<1>11. TypeOK'
  BY <1>2, <1>6, <1>7, <1>8, <1>10 DEF IInv, TypeOK
<1>12. OrderOK'
  <2>1. phase # "identity"
    BY <1>4 DEF IInv, OrderOK
  <2>2. phase = "assignments" => c = Assignments
    BY <1>4 DEF IInv, OrderOK
  <2>3. phase \in {"definitions", "denies"} => Started /\ Started' /\ Seen' = Seen
    BY <1>6, <1>7, <1>10 DEF IInv, OrderOK, Started
  <2>4. settled \subseteq Roles
    BY DEF IInv, TypeOK, Seen, scopeCovers
  <2> QED
    BY <1>6, <1>7, <1>8, <2>1, <2>2, <2>3, <2>4 DEF IInv, OrderOK, Seen, scopeCovers
<1>13. DecisionIsTrue'
  <2>1. decision = Nothing
    BY DEF IInv, TypeOK
  <2> QED
    BY <1>8, <2>1, DecisionsAssumption DEF DecisionIsTrue, Decisions
<1> QED
  BY <1>2, <1>9, <1>11, <1>12, <1>13 DEF IInv

(* Nothing of the calls changes: the context ends, or a goroutine stores.  *)
LEMMA CancelKeeps == IInv /\ phase # "over" /\ Waits /\ Cancel => IInv'
<1> SUFFICES ASSUME IInv, Waits, Cancel PROVE IInv'
  OBVIOUS
<1>1. UNCHANGED <<stage, attempt, page, result, there, taken, grant, onPage, assignedAt, deny, denyForm, phase, settled, fatal, decision>> /\ cancelled' = TRUE
  BY DEF Waits, Cancel
<1>2. Held' = Held /\ Seen' = Seen
  BY <1>1 DEF Held, Seen, scopeCovers
<1>3. CallsTypeOK'
  BY <1>1, <1>2 DEF IInv, TypeOK, CallsTypeOK, Held
<1>4. TypeOK'
  BY <1>1, <1>2, <1>3 DEF IInv, TypeOK
<1> QED
  BY <1>1, <1>2, <1>4 DEF IInv, Truth, PagesOK, OrderOK, Started, WholeIsWhole, DecisionIsTrue

LEMMA StoreKeeps == ASSUME IInv, NEW r \in Roles, Store(r) PROVE IInv'
<1>1. /\ phase = "definitions" /\ r \in Seen /\ stage[r] = "done" /\ settled' = settled \cup {r} /\ fatal' \in BOOLEAN
      /\ UNCHANGED <<stage, attempt, page, result, there, taken, cancelled, grant, onPage, assignedAt, deny, denyForm, phase, decision>>
  BY DEF Store, truth, callVars, IInv, TypeOK
<1>2. Held' = Held /\ Seen' = Seen
  BY <1>1 DEF Held, Seen, scopeCovers
<1>3. CallsTypeOK'
  BY <1>1, <1>2 DEF IInv, TypeOK, CallsTypeOK, Held
<1>4. TypeOK'
  BY <1>1, <1>2, <1>3 DEF IInv, TypeOK
<1>5. OrderOK'
  BY <1>1, <1>2 DEF IInv, OrderOK, Started
<1> QED
  BY <1>1, <1>4, <1>5 DEF IInv, Truth, PagesOK, WholeIsWhole, DecisionIsTrue

-----------------------------------------------------------------------------
(* The function asks its next questions.                                   *)
LEMMA AskingKeeps ==
  ASSUME IInv, NEW S \in SUBSET Calls, Ask(S), UNCHANGED <<grant, onPage, assignedAt, deny, denyForm, settled, fatal, decision>>,
         phase' \in Phases \ {"over"}, phase # "over", S \cap Roles \subseteq Seen
  PROVE  /\ Truth' /\ TypeOK' /\ PagesOK' /\ WholeIsWhole' /\ DecisionIsTrue'
         /\ Seen' = Seen /\ page' = page
         /\ \A c \in Calls \ S : stage'[c] = stage[c] /\ result'[c] = result[c]
         /\ \A c \in S : stage[c] = "idle" /\ stage'[c] # "idle"
<1>1. CallsTypeOK' /\ PagesOK' /\ WholeIsWhole'
  BY AskKeeps DEF IInv, TypeOK
<1>2. /\ stage' = [c \in Calls |-> IF c \in S THEN Requested(c) ELSE stage[c]]
      /\ result' = [c \in Calls |-> IF c \in S THEN Refused(c) ELSE result[c]]
      /\ \A c \in S : stage[c] = "idle" /\ UNCHANGED <<page, there>>
      /\ page' = page /\ there' = there
  BY DEF Ask
<1>3. /\ \A c \in Calls \ S : stage'[c] = stage[c] /\ result'[c] = result[c]
      /\ \A c \in S : stage[c] = "idle" /\ stage'[c] # "idle"
  BY <1>2 DEF Requested
<1>4. Seen' = Seen
  BY <1>2 DEF Seen, scopeCovers
<1>5. decision = Nothing /\ decision' = Nothing
  BY DEF IInv, TypeOK
<1>6. Truth'
  BY <1>2 DEF IInv, Truth
<1>7. TypeOK'
  BY <1>1, <1>3, <1>4, <1>5, EffectiveActionsAssumption DEF IInv, TypeOK
<1>8. DecisionIsTrue'
  BY <1>5, DecisionsAssumption DEF DecisionIsTrue, Decisions
<1> QED
  BY <1>1, <1>2, <1>3, <1>4, <1>6, <1>7, <1>8

(* It gives up when nothing of it is under way.                            *)
LEMMA GivingUpKeeps == IInv /\ GiveUp /\ (\A c \in Calls : stage[c] \in {"idle", "done"}) => IInv'
<1> SUFFICES ASSUME IInv, GiveUp, \A c \in Calls : stage[c] \in {"idle", "done"} PROVE IInv'
  OBVIOUS
<1>1. /\ UNCHANGED <<stage, attempt, page, result, there, taken, cancelled, grant, onPage, assignedAt, deny, denyForm, settled, fatal>>
      /\ phase' = "over" /\ decision' = "error"
  BY DEF GiveUp, callVars, truth
<1>2. Held' = Held /\ Seen' = Seen /\ Held = {}
  BY <1>1 DEF Held, Seen, scopeCovers, Holding
<1>3. taken = 0
  BY <1>2, FS_EmptySet DEF IInv, TypeOK, CallsTypeOK, Held
<1>4. TypeOK'
  BY <1>1, <1>2, <1>3, DecisionsAssumption DEF IInv, TypeOK, CallsTypeOK, Held, Phases, Decisions
<1>5. OrderOK'
  BY <1>1 DEF IInv, OrderOK
<1> QED
  BY <1>1, <1>4, <1>5 DEF IInv, Truth, PagesOK, WholeIsWhole, DecisionIsTrue

(* The decision is true of what Azure holds.                               *)
LEMMA VerdictIsTrue ==
  ASSUME IInv, Decide
  PROVE  /\ Verdict \in Decisions
         /\ Verdict = "allowed" => /\ \E r \in Roles : grant[r] = "grants"
                                   /\ result[DenyList] = "whole" => deny = 0 \/ denyForm = "a group"
         /\ Verdict = "denied" => \/ deny # 0 /\ denyForm # "a group"
                                  \/ result[Assignments] = "cut"
                                  \/ \A r \in Roles : assignedAt[r] = "prefix" => grant[r] = "nothing"
<1> DEFINE unread == \E r \in Seen : ~Readable(r)
           barren == \A r \in Roles : assignedAt[r] = "prefix" => grant[r] = "nothing"
<1>1. phase = "denies" /\ result[DenyList] \in Listed \cup {"unavailable"}
  BY DEF Decide
<1>2. Started /\ Assignments \in Calls /\ DenyList \in Calls /\ Seen \subseteq Roles
  BY <1>1, EffectiveActionsAssumption DEF IInv, OrderOK, Seen
<1>3. deny \in Nat /\ (result[DenyList] = "whole" => deny <= page[DenyList])
  BY <1>2 DEF IInv, Truth, WholeIsWhole
<1>4. page[DenyList] \in Nat
  BY <1>2, ArmClientAssumption DEF IInv, TypeOK, CallsTypeOK
<1>5. result[Assignments] = "whole" => \A r \in Roles : assignedAt[r] = "prefix" => r \in Seen
  BY <1>2 DEF IInv, Truth, WholeIsWhole, Seen, scopeCovers
<1>6. DenySeen => deny # 0 /\ denyForm # "a group"
  <2>1. DenySeen => deny \in 1 .. page[DenyList] /\ denyForm \in {"the caller", "all but a group"}
    BY DEF DenySeen, applies
  <2>2. deny \in 1 .. page[DenyList] => deny # 0
    BY <1>4
  <2>3. denyForm \in {"the caller", "all but a group"} => denyForm # "a group"
    OBVIOUS
  <2> QED
    BY <2>1, <2>2, <2>3
<1>7. ~DenySeen /\ result[DenyList] = "whole" => deny = 0 \/ denyForm = "a group"
  <2>1. denyForm \in {"the caller", "a group", "all but a group"}
    BY DEF IInv, Truth, Forms
  <2>2. ~DenySeen /\ result[DenyList] = "whole" => deny \notin 1 .. page[DenyList] \/ denyForm \notin {"the caller", "all but a group"}
    BY DEF DenySeen, DenyUnreadable, applies
  <2>3. result[DenyList] = "whole" /\ deny \notin 1 .. page[DenyList] => deny = 0
    BY <1>3, <1>4
  <2> QED
    BY <2>1, <2>2, <2>3
<1>8. Granted => \E r \in Roles : grant[r] = "grants"
  BY <1>2 DEF Granted
<1>9. ~Granted /\ ~Conditional /\ ~unread => \A r \in Seen : grant[r] = "nothing"
  BY <1>2 DEF Granted, Conditional, IInv, Truth, Grants
<1>10. ~Granted /\ ~Conditional /\ ~unread => result[Assignments] = "cut" \/ barren
  BY <1>2, <1>5, <1>9 DEF Started, Listed
<1>11. /\ DenySeen => Verdict = "denied"
       /\ ~DenySeen /\ Granted => Verdict = IF DenyUnreadable THEN "unknown" ELSE "allowed"
       /\ ~DenySeen /\ ~Granted /\ (Conditional \/ unread) => Verdict = "unknown"
       /\ ~DenySeen /\ ~Granted /\ ~Conditional /\ ~unread => Verdict = "denied"
  BY DEF Verdict
<1>12. /\ Verdict \in Decisions
       /\ Verdict = "allowed" => ~DenySeen /\ Granted
       /\ Verdict = "denied" => DenySeen \/ (~Granted /\ ~Conditional /\ ~unread)
  BY <1>11 DEF Decisions
<1> HIDE DEF unread
<1> QED
  BY <1>6, <1>7, <1>8, <1>10, <1>12

LEMMA DecidingKeeps == ASSUME IInv, Decide PROVE IInv'
<1>1. /\ phase = "denies" /\ phase' = "over" /\ decision' = Verdict /\ result[DenyList] \in Listed \cup {"unavailable"}
      /\ UNCHANGED <<stage, attempt, page, result, there, taken, cancelled, grant, onPage, assignedAt, deny, denyForm, settled, fatal>>
  BY DEF Decide, callVars, truth
<1>2. stage[DenyList] = "done" /\ stage[Assignments] = "done"
  BY <1>1, EffectiveActionsAssumption, NothingAssumption DEF IInv, TypeOK, CallsTypeOK, OrderOK, Started, Listed, Errors
<1>3. \A c \in Calls : stage[c] \in {"idle", "done"}
  BY <1>1, <1>2, EffectiveActionsAssumption DEF IInv, TypeOK, OrderOK
<1>4. Held' = Held /\ Seen' = Seen /\ Held = {}
  BY <1>1, <1>3 DEF Held, Seen, scopeCovers, Holding
<1>5. taken = 0
  BY <1>4, FS_EmptySet DEF IInv, TypeOK, CallsTypeOK, Held
<1>6. decision' \in Decisions
  BY <1>1, VerdictIsTrue
<1>7. TypeOK'
  BY <1>1, <1>4, <1>5, <1>6, DecisionsAssumption DEF IInv, TypeOK, CallsTypeOK, Held, Phases
<1>8. OrderOK'
  BY <1>1, <1>3 DEF IInv, OrderOK
<1>9. DecisionIsTrue'
  BY <1>1, VerdictIsTrue DEF DecisionIsTrue
<1> QED
  BY <1>1, <1>7, <1>8, <1>9 DEF IInv, Truth, PagesOK, WholeIsWhole

-----------------------------------------------------------------------------
LEMMA StepKeeps == IInv /\ [Next]_vars => IInv'
<1> SUFFICES ASSUME IInv, [Next]_vars PROVE IInv'
  OBVIOUS
<1>0. /\ Assignments \in Calls /\ DenyList \in Calls /\ Roles \subseteq Calls
      /\ Assignments \notin Roles /\ DenyList \notin Roles /\ Assignments # DenyList /\ Seen \subseteq Roles
      /\ Calls = Roles \cup {Assignments, DenyList}
  BY EffectiveActionsAssumption DEF Seen, scopeCovers
<1>1. CASE Identify
  <2>1. /\ phase = "identity" /\ phase' = "assignments" /\ Ask({Assignments})
        /\ UNCHANGED <<grant, onPage, assignedAt, deny, denyForm, settled, fatal, decision>>
    BY <1>1 DEF Identify, truth
  <2>2. {Assignments} \in SUBSET Calls /\ {Assignments} \cap Roles \subseteq Seen
    BY <1>0
  <2>3. /\ Truth' /\ TypeOK' /\ PagesOK' /\ WholeIsWhole' /\ DecisionIsTrue'
        /\ \A c \in Calls \ {Assignments} : stage'[c] = stage[c]
    BY <2>1, <2>2, AskingKeeps DEF Phases
  <2>4. OrderOK'
    BY <2>1, <2>3 DEF IInv, OrderOK
  <2> QED
    BY <2>3, <2>4 DEF IInv
<1>2. CASE ReadDefinitions
  <2>1. /\ phase = "assignments" /\ phase' = "definitions" /\ Ask(Seen) /\ result[Assignments] \in Listed
        /\ UNCHANGED <<grant, onPage, assignedAt, deny, denyForm, settled, fatal, decision>>
    BY <1>2 DEF ReadDefinitions, truth
  <2>2. /\ Truth' /\ TypeOK' /\ PagesOK' /\ WholeIsWhole' /\ DecisionIsTrue' /\ Seen' = Seen
        /\ \A c \in Calls \ Seen : stage'[c] = stage[c] /\ result'[c] = result[c]
        /\ \A c \in Seen : stage'[c] # "idle"
    BY <1>0, <2>1, AskingKeeps DEF Phases
  <2>3. stage[Assignments] = "done" /\ stage[DenyList] = "idle" /\ settled = {}
    BY <1>0, <2>1, NothingAssumption DEF IInv, TypeOK, CallsTypeOK, OrderOK
  <2>4. OrderOK'
    BY <1>0, <2>1, <2>2, <2>3 DEF OrderOK, Started
  <2> QED
    BY <2>2, <2>4 DEF IInv
<1>3. CASE ReadDenies
  <2>1. /\ phase = "definitions" /\ phase' = "denies" /\ Ask({DenyList}) /\ settled = Seen
        /\ UNCHANGED <<grant, onPage, assignedAt, deny, denyForm, settled, fatal, decision>>
    BY <1>3 DEF ReadDenies, truth
  <2>2. {DenyList} \in SUBSET Calls /\ {DenyList} \cap Roles \subseteq Seen
    BY <1>0
  <2>3. /\ Truth' /\ TypeOK' /\ PagesOK' /\ WholeIsWhole' /\ DecisionIsTrue' /\ Seen' = Seen
        /\ \A c \in Calls \ {DenyList} : stage'[c] = stage[c] /\ result'[c] = result[c]
        /\ stage'[DenyList] # "idle"
    BY <2>1, <2>2, AskingKeeps DEF Phases
  <2>4. OrderOK'
    BY <1>0, <2>1, <2>3 DEF IInv, OrderOK, Started
  <2> QED
    BY <2>3, <2>4 DEF IInv
<1>4. CASE NoIdentity \/ NoAssignments \/ Interrupted \/ NoDenies
  <2>1. GiveUp
    BY <1>4 DEF NoIdentity, NoAssignments, Interrupted, NoDenies
  <2>2. CASE NoIdentity
    BY <2>1, <2>2, GivingUpKeeps DEF NoIdentity, IInv, OrderOK
  <2>3. CASE NoAssignments
    <3>1. stage[Assignments] = "done"
      BY <1>0, <2>3, NothingAssumption DEF NoAssignments, IInv, TypeOK, CallsTypeOK
    <3> QED
      BY <2>1, <2>3, <3>1, GivingUpKeeps DEF NoAssignments, IInv, OrderOK
  <2>4. CASE Interrupted
    <3>1. \A r \in Roles : stage[r] \in {"idle", "done"}
      BY <2>4 DEF Interrupted, IInv, TypeOK, OrderOK
    <3> QED
      BY <1>0, <2>1, <2>4, <3>1, GivingUpKeeps DEF Interrupted, IInv, OrderOK, Started
  <2>5. CASE NoDenies
    <3>1. stage[DenyList] = "done"
      BY <1>0, <2>5, NothingAssumption DEF NoDenies, IInv, TypeOK, CallsTypeOK
    <3>2. \A r \in Roles : stage[r] \in {"idle", "done"}
      BY <2>5 DEF NoDenies, IInv, TypeOK, OrderOK
    <3> QED
      BY <1>0, <2>1, <2>5, <3>1, <3>2, GivingUpKeeps DEF NoDenies, IInv, OrderOK, Started
  <2> QED
    BY <1>4, <2>2, <2>3, <2>4, <2>5
<1>5. CASE phase # "over" /\ (Cancel \/ \E c \in Calls : CallStep(c)) /\ Waits
  BY <1>5, CallKeeps, CancelKeeps
<1>6. CASE UNCHANGED vars
  <2>1. UNCHANGED <<stage, attempt, page, result, there, taken, cancelled, grant, onPage, assignedAt, deny, denyForm, phase, settled, fatal, decision>>
    BY <1>6 DEF vars, callVars
  <2>2. Held' = Held /\ Seen' = Seen
    BY <2>1 DEF Held, Seen, scopeCovers
  <2>3. TypeOK'
    BY <2>1, <2>2 DEF IInv, TypeOK, CallsTypeOK, Held
  <2> QED
    BY <2>1, <2>2, <2>3 DEF IInv, Truth, PagesOK, OrderOK, Started, WholeIsWhole, DecisionIsTrue
<1>7. ASSUME phase # "over", Cancel \/ \E c \in Calls : CallStep(c),
             While
      PROVE  IInv'
  <2>1. Waits
    BY <1>7 DEF Waits, While, truth
  <2> QED
    BY <1>5, <1>7, <2>1
<1> QED
  BY <1>1, <1>2, <1>3, <1>4, <1>6, <1>7, DecidingKeeps, StoreKeeps DEF Next, Go

LEMMA Invariance == Spec => []IInv
  BY InitHolds, StepKeeps, PTL DEF Spec

(* The slots in use are those of the requests under way, whatever fails,   *)
(* is retried or is cut short; none is left in use when the function       *)
(* returns (transport.go, the deferred receive of doQuery).                *)
THEOREM ActionsTypeCorrect == Spec => []TypeOK
<1>1. IInv => TypeOK
  BY DEF IInv
<1> QED
  BY Invariance, <1>1, PTL

(* A listing that is not said to be truncated holds all there is, for any  *)
(* number of pages and any bound on them (transport.go, list).             *)
THEOREM ListingsAreWhole == Spec => []WholeIsWhole
<1>1. IInv => WholeIsWhole
  BY DEF IInv
<1> QED
  BY Invariance, <1>1, PTL

(* An action that is called allowed is granted by a role, and by no deny   *)
(* assignment of a whole listing taken back but one that names a group;    *)
(* one that is called denied is denied to the caller by name or to         *)
(* everyone, or granted by no assignment on a prefix of the scope, as far  *)
(* as the listing was whole. So no read that fails turns into a yes or a   *)
(* no, for any number of roles and pages (permissions.go, the switch at    *)
(* the end of EffectiveActions).                                           *)
THEOREM DecisionsAreTrue == Spec => []DecisionIsTrue
<1>1. IInv => DecisionIsTrue
  BY DEF IInv
<1> QED
  BY Invariance, <1>1, PTL
=============================================================================
