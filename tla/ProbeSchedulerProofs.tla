------------------------ MODULE ProbeSchedulerProofs ------------------------
(***************************************************************************)
(* What ProbeScheduler promises for any rules, whatever they fetch, any    *)
(* answers and any parallelism.                                            *)
(***************************************************************************)
EXTENDS ProbeScheduler, FiniteSetTheorems, TLAPS

(* Who waits or fetches has a question before it.                          *)
Busy(r) == stage[r] \in {"waiting", "fetching"}
AsksSomething == \A r \in Rules : Busy(r) => at[r] <= Len(Needs[r])

(* An answer a rule has heard is the one that is kept.                     *)
HeardIsCached ==
  \A r \in Rules, k \in Keys : heard[r][k] \in Answers => cached[k] = heard[r][k]

(* A rule that goes on has heard nothing of what it has yet to fetch, and  *)
(* what it has fetched was answered, unless it noted otherwise.            *)
StillToHear ==
  \A r \in Rules : stage[r] # "ended" =>
    \A i \in 1..Len(Needs[r]) : i >= at[r] => heard[r][Needs[r][i]] = Nothing
HasHeard ==
  \A r \in Rules : stage[r] # "ended" /\ r \notin noted =>
    \A i \in 1..Len(Needs[r]) : i < at[r] => heard[r][Needs[r][i]] \in Answers \ Failures

(* What is in flight is not answered yet.                                  *)
FlownIsOpen == \A r \in Rules : stage[r] = "fetching" => cached[Key(r)] = Nothing

(* Only an interrupt leaves a rule cancelled or without an outcome, and the*)
(* engine begins when every goroutine has ended.                           *)
StoredAtTheEnd ==
  /\ \A r \in Rules : outcome[r] # NotStored /\ phase = "probing" => stage[r] = "ended"
  /\ phase # "probing" => \A r \in Rules : stage[r] = "ended" /\ outcome[r] # NotStored
  /\ ~cancelled => \A r \in Rules :
       /\ ctxErr[r] # "canceled"
       /\ outcome[r] # "cancelled"
       /\ stage[r] = "ended" => outcome[r] # NotStored
  /\ phase = "probing" => replayed = {}

Memos == FlightsAreFlown /\ AsksSomething /\ HeardIsCached /\ StillToHear /\ FlownIsOpen
Outcome == HasHeard /\ CleanIsInformed /\ StoredAtTheEnd /\ ReportIsWhole
IInv == TypeOK /\ Memos /\ Outcome

-----------------------------------------------------------------------------
(* The question before a rule is one of the memos' keys, and none of those *)
(* that come after it.                                                     *)
LEMMA KeyIsAKey ==
  ASSUME TypeOK, NEW r \in Rules, at[r] <= Len(Needs[r])
  PROVE  /\ at[r] \in 1..Len(Needs[r])
         /\ Key(r) \in Keys
         /\ \A i \in 1..Len(Needs[r]) : i # at[r] => Needs[r][i] # Key(r)
<1>1. Needs[r] \in Seq(Keys) /\ at[r] \in Nat \ {0} /\ Len(Needs[r]) \in Nat
  BY NeedsAssumption DEF TypeOK
<1>2. at[r] \in 1..Len(Needs[r])
  BY <1>1
<1>3. Key(r) \in Keys
  BY <1>1, <1>2 DEF Key
<1>4. \A i \in 1..Len(Needs[r]) : i # at[r] => Needs[r][i] # Key(r)
  BY <1>2, NeedsAssumption DEF Key
<1> QED
  BY <1>2, <1>3, <1>4

LEMMA MoreToFetch ==
  ASSUME TypeOK, NEW r \in Rules, ~AllFetched(r)
  PROVE  at[r] <= Len(Needs[r])
<1>1. Needs[r] \in Seq(Keys) /\ at[r] \in Nat \ {0} /\ Len(Needs[r]) \in Nat
  BY NeedsAssumption DEF TypeOK
<1> QED
  BY <1>1 DEF AllFetched, TypeOK

(* The bound on the goroutines that run, from what a step does to the set  *)
(* of them.                                                                *)
LEMMA FewerRun ==
  ASSUME NEW S \in SUBSET Rules, NEW T \in SUBSET S, Cardinality(S) <= Parallelism
  PROVE  Cardinality(T) <= Parallelism
<1>1. IsFiniteSet(S)
  BY FS_Subset, RulesAssumption
<1>2. Cardinality(T) <= Cardinality(S) /\ IsFiniteSet(T)
  BY <1>1, FS_Subset
<1>3. Cardinality(S) \in Nat /\ Cardinality(T) \in Nat
  BY <1>1, <1>2, FS_CardinalityType
<1> QED
  BY <1>2, <1>3, ParallelismAssumption

LEMMA OneMoreRuns ==
  ASSUME NEW S \in SUBSET Rules, NEW r \in Rules, Cardinality(S) < Parallelism
  PROVE  Cardinality(S \cup {r}) <= Parallelism
<1>1. IsFiniteSet(S)
  BY FS_Subset, RulesAssumption
<1>2. Cardinality(S) \in Nat
  BY <1>1, FS_CardinalityType
<1>3. Cardinality(S \cup {r}) = IF r \in S THEN Cardinality(S) ELSE Cardinality(S) + 1
  BY <1>1, FS_AddElement
<1> QED
  BY <1>2, <1>3, ParallelismAssumption

(* What hearing an answer, or that time is up, does to a rule.             *)
LEMMA Hearing ==
  ASSUME TypeOK, NEW r \in Rules, at[r] <= Len(Needs[r]), Running(r),
         NEW a \in Answers \cup {Cut}, Hear(r, a)
  PROVE  /\ heard' = [heard EXCEPT ![r][Key(r)] = a]
         /\ \/ /\ stage' = [stage EXCEPT ![r] = "ready"]
               /\ at' = [at EXCEPT ![r] = @ + 1]
               /\ UNCHANGED <<outcome, ctxErr>>
               /\ noted' = IF a \in Answers \ Failures THEN noted ELSE noted \cup {r}
            \/ /\ stage' = [stage EXCEPT ![r] = "ended"]
               /\ ctxErr' = [ctxErr EXCEPT ![r] = "none"]
               /\ \E what \in {"timed-out", "cancelled", "unavailable"} :
                    /\ outcome' = [outcome EXCEPT ![r] = what]
                    /\ what = "cancelled" => ctxErr[r] = "canceled"
               /\ UNCHANGED <<at, noted>>
  BY AnswersAssumption DEF Hear, End, ofError

LEMMA HearingKeepsTypes ==
  ASSUME TypeOK, NEW r \in Rules, at[r] <= Len(Needs[r]), Running(r),
         NEW a \in Answers \cup {Cut}, Hear(r, a),
         waitsFor' \in [Rules -> Rules \cup {Nobody}], flight' \in [Keys -> Rules \cup {Nobody}],
         cached' \in [Keys -> Answers \cup {Nothing}], UNCHANGED run
  PROVE  TypeOK'
<1>1. Key(r) \in Keys /\ at[r] \in Nat \ {0} /\ Len(Needs[r]) \in Nat
  BY KeyIsAKey, NeedsAssumption DEF TypeOK
<1>2. /\ heard' = [heard EXCEPT ![r][Key(r)] = a]
      /\ stage' \in {[stage EXCEPT ![r] = "ready"], [stage EXCEPT ![r] = "ended"]}
      /\ at' \in {[at EXCEPT ![r] = @ + 1], at}
      /\ ctxErr' \in {[ctxErr EXCEPT ![r] = "none"], ctxErr}
      /\ noted' \in {noted, noted \cup {r}}
  BY Hearing
<1>3. outcome' \in {outcome, [outcome EXCEPT ![r] = "timed-out"], [outcome EXCEPT ![r] = "cancelled"],
                    [outcome EXCEPT ![r] = "unavailable"]}
  BY Hearing
<1>4. {s \in Rules : Running(s)}' \subseteq {s \in Rules : Running(s)}
  BY <1>2 DEF Running, TypeOK
<1>5. (Cardinality({s \in Rules : Running(s)}) <= Parallelism)'
  BY <1>4, FewerRun DEF TypeOK
<1>6. heard' \in [Rules -> [Keys -> Answers \cup {Nothing, Cut}]]
  BY <1>1, <1>2 DEF TypeOK
<1>7. at' \in [Rules -> Nat \ {0}] /\ \A s \in Rules : at'[s] <= Len(Needs[s]) + 1
  <2>1. at \in [Rules -> Nat \ {0}] /\ \A s \in Rules : at[s] <= Len(Needs[s]) + 1
    BY DEF TypeOK
  <2>2. at' = at \/ (at' = [at EXCEPT ![r] = @ + 1] /\ at[r] + 1 <= Len(Needs[r]) + 1 /\ at[r] + 1 \in Nat \ {0})
    BY <1>1, <1>2
  <2> QED
    BY <2>1, <2>2
<1>8. /\ stage' \in [Rules -> {"queued", "ready", "waiting", "fetching", "ended"}]
      /\ ctxErr' \in [Rules -> {"none", "deadline", "canceled"}]
      /\ noted' \subseteq Rules
  BY <1>2 DEF TypeOK
<1>9. outcome' \in [Rules -> Outcomes \cup {NotStored}]
  BY <1>3 DEF TypeOK, Outcomes
<1> QED
  BY <1>5, <1>6, <1>7, <1>8, <1>9 DEF TypeOK, run

-----------------------------------------------------------------------------
LEMMA InitHolds == Init => IInv
<1> SUFFICES ASSUME Init PROVE IInv
  OBVIOUS
<1>1. {r \in Rules : Running(r)} = {}
  BY DEF Init, Running
<1>2. Cardinality({r \in Rules : Running(r)}) <= Parallelism
  BY <1>1, FS_EmptySet, ParallelismAssumption
<1>3. \A r \in Rules : Len(Needs[r]) \in Nat /\ \A i \in 1..Len(Needs[r]) : Needs[r][i] \in Keys
  BY NeedsAssumption
<1>4. TypeOK
  <2>1. at \in [Rules -> Nat \ {0}] /\ \A r \in Rules : at[r] <= Len(Needs[r]) + 1
    BY <1>3 DEF Init
  <2>2. /\ stage \in [Rules -> {"queued", "ready", "waiting", "fetching", "ended"}]
        /\ waitsFor \in [Rules -> Rules \cup {Nobody}]
        /\ ctxErr \in [Rules -> {"none", "deadline", "canceled"}]
        /\ noted \subseteq Rules
        /\ outcome \in [Rules -> Outcomes \cup {NotStored}]
        /\ flight \in [Keys -> Rules \cup {Nobody}]
        /\ cached \in [Keys -> Answers \cup {Nothing}]
        /\ cancelled \in BOOLEAN /\ phase = "probing" /\ replayed \subseteq Rules
    BY DEF Init
  <2>3. heard \in [Rules -> [Keys -> Answers \cup {Nothing, Cut}]]
    BY DEF Init
  <2> QED
    BY <1>2, <2>1, <2>2, <2>3 DEF TypeOK
<1>5. FlightsAreFlown /\ AsksSomething /\ HeardIsCached /\ FlownIsOpen
  BY AnswersAssumption DEF Init, FlightsAreFlown, AsksSomething, Busy, HeardIsCached, FlownIsOpen
<1>6. StillToHear
  BY <1>3 DEF Init, StillToHear
<1>7. HasHeard
  BY <1>3 DEF Init, HasHeard
<1>8. CleanIsInformed /\ StoredAtTheEnd /\ ReportIsWhole
  BY DEF Init, CleanIsInformed, StoredAtTheEnd, ReportIsWhole, NotStored
<1> QED
  BY <1>4, <1>5, <1>6, <1>7, <1>8 DEF IInv, Memos, Outcome

-----------------------------------------------------------------------------
(* Every step keeps the types.                                             *)
LEMMA TypesKept == TypeOK /\ AsksSomething /\ [Next]_vars => TypeOK'
<1> SUFFICES ASSUME TypeOK, AsksSomething, [Next]_vars PROVE TypeOK'
  OBVIOUS
<1> DEFINE Slots == {s \in Rules : Running(s)}
<1>1. Slots \subseteq Rules /\ Cardinality(Slots) <= Parallelism
  BY DEF TypeOK
<1>2. ASSUME NEW r \in Rules, StartProbe(r) PROVE TypeOK'
  <2>1. Slots' = Slots \cup {r}
    BY <1>2 DEF StartProbe, Running, TypeOK
  <2>2. Cardinality(Slots)' <= Parallelism
    BY <1>1, <1>2, <2>1, OneMoreRuns DEF StartProbe
  <2> QED
    BY <1>2, <2>2 DEF StartProbe, TypeOK, memo, run
<1>3. ASSUME NEW r \in Rules, NeverStart(r) \/ Decide(r) PROVE TypeOK'
  <2>1. Slots' \subseteq Slots
    BY <1>3 DEF NeverStart, Decide, End, Running, TypeOK
  <2>2. Cardinality(Slots)' <= Parallelism
    BY <1>1, <2>1, FewerRun
  <2> QED
    BY <1>3, <2>2 DEF NeverStart, Decide, End, TypeOK, Outcomes, memo, run
<1>4. ASSUME NEW r \in Rules, Join(r) \/ Wake(r) \/ Fly(r) PROVE TypeOK'
  <2>1. Slots' \subseteq Slots
    BY <1>4 DEF Join, Wake, Fly, Asks, Running, TypeOK
  <2>2. Cardinality(Slots)' <= Parallelism
    BY <1>1, <2>1, FewerRun
  <2>3. Asks(r) => Key(r) \in Keys
    BY MoreToFetch, KeyIsAKey DEF Asks
  <2>4. Join(r) => flight[Key(r)] \in Rules
    BY <2>3 DEF Join, TypeOK
  <2>5. /\ stage' \in [Rules -> {"queued", "ready", "waiting", "fetching", "ended"}]
        /\ waitsFor' \in [Rules -> Rules \cup {Nobody}]
        /\ flight' \in [Keys -> Rules \cup {Nobody}]
    <3>1. Nobody \in Rules \cup {Nobody} /\ r \in Rules
      OBVIOUS
    <3>2. CASE Join(r)
      BY <2>4, <3>2 DEF Join, TypeOK, memo
    <3>3. CASE Wake(r)
      BY <3>1, <3>3 DEF Wake, TypeOK, memo
    <3>4. CASE Fly(r)
      BY <2>3, <3>4 DEF Fly, TypeOK
    <3> QED
      BY <1>4, <3>2, <3>3, <3>4
  <2>6. UNCHANGED <<at, ctxErr, heard, noted, outcome, cached, run>>
    BY <1>4 DEF Join, Wake, Fly, memo
  <2> QED
    BY <2>2, <2>5, <2>6 DEF TypeOK, run
<1>5. ASSUME NEW r \in Rules, Expire(r) \/ Replay(r) PROVE TypeOK'
  <2>1. Slots' = Slots
    BY <1>5 DEF Expire, Replay, goroutine, Running
  <2> QED
    BY <1>1, <1>5, <2>1 DEF Expire, Replay, TypeOK, goroutine, memo, run
<1>6. ASSUME NEW r \in Rules, Hit(r) PROVE TypeOK'
  <2>1. at[r] <= Len(Needs[r]) /\ Key(r) \in Keys /\ Running(r)
    BY <1>6, MoreToFetch, KeyIsAKey DEF Hit, Asks, Running
  <2>2. cached[Key(r)] \in Answers \cup {Cut}
    BY <1>6, <2>1 DEF Hit, TypeOK
  <2>3. Hear(r, cached[Key(r)])
    BY <1>6 DEF Hit
  <2> QED
    BY <1>6, <2>1, <2>2, <2>3, HearingKeepsTypes DEF Hit, TypeOK, memo
<1>7. ASSUME NEW r \in Rules, GiveUp(r) \/ CutOff(r) PROVE TypeOK'
  <2>1. at[r] <= Len(Needs[r]) /\ Key(r) \in Keys /\ Running(r)
    BY <1>7, KeyIsAKey DEF GiveUp, CutOff, AsksSomething, Busy, Running
  <2>2. Hear(r, Cut) /\ UNCHANGED run
    BY <1>7 DEF GiveUp, CutOff
  <2>3. /\ waitsFor' \in [Rules -> Rules \cup {Nobody}]
        /\ flight' \in [Keys -> Rules \cup {Nobody}]
        /\ cached' \in [Keys -> Answers \cup {Nothing}]
    BY <1>7, <2>1 DEF GiveUp, CutOff, TypeOK, memo
  <2> QED
    BY <2>1, <2>2, <2>3, HearingKeepsTypes
<1>8. ASSUME NEW r \in Rules, Fetched(r) PROVE TypeOK'
  <2>1. at[r] <= Len(Needs[r]) /\ Key(r) \in Keys /\ Running(r)
    BY <1>8, KeyIsAKey DEF Fetched, AsksSomething, Busy, Running
  <2>2. PICK a \in Answers : cached' = [cached EXCEPT ![Key(r)] = a] /\ Hear(r, a)
    BY <1>8 DEF Fetched
  <2>3. /\ waitsFor' \in [Rules -> Rules \cup {Nobody}]
        /\ flight' \in [Keys -> Rules \cup {Nobody}]
        /\ cached' \in [Keys -> Answers \cup {Nothing}]
        /\ UNCHANGED run
    BY <1>8, <2>1, <2>2 DEF Fetched, TypeOK
  <2> QED
    BY <2>1, <2>2, <2>3, HearingKeepsTypes
<1>9. CASE Interrupt
  <2>1. Slots' = Slots
    BY <1>9 DEF Interrupt, Running
  <2> QED
    BY <1>1, <1>9, <2>1 DEF Interrupt, TypeOK, memo
<1>10. CASE ScheduleReturns \/ Abort
  <2>1. Slots' = Slots
    BY <1>10 DEF ScheduleReturns, Abort, goroutine, Running
  <2> QED
    BY <1>1, <1>10, <2>1 DEF ScheduleReturns, Abort, TypeOK, Outcomes, goroutine, memo
<1>11. CASE UNCHANGED vars
  <2>1. Slots' = Slots
    BY <1>11 DEF vars, goroutine, Running
  <2> QED
    BY <1>1, <1>11, <2>1 DEF TypeOK, vars, goroutine, memo, run
<1> QED
  BY <1>2, <1>3, <1>4, <1>5, <1>6, <1>7, <1>8, <1>9, <1>10, <1>11 DEF Next

-----------------------------------------------------------------------------
(* A rule with a question before it: what the memos know of it.            *)
LEMMA Asking ==
  ASSUME TypeOK, Memos, NEW r \in Rules, Asks(r) \/ Busy(r)
  PROVE  /\ at[r] \in 1..Len(Needs[r]) /\ Key(r) \in Keys /\ Running(r) /\ stage[r] # "ended"
         /\ heard[r][Key(r)] = Nothing
         /\ \A i \in 1..Len(Needs[r]) : i # at[r] => Needs[r][i] # Key(r)
<1>1. at[r] <= Len(Needs[r]) /\ Running(r) /\ stage[r] # "ended"
  BY MoreToFetch DEF Asks, Busy, Memos, AsksSomething, Running
<1>2. at[r] \in 1..Len(Needs[r]) /\ Key(r) \in Keys /\ \A i \in 1..Len(Needs[r]) : i # at[r] => Needs[r][i] # Key(r)
  BY <1>1, KeyIsAKey
<1>3. heard[r][Key(r)] = Nothing
  BY <1>1, <1>2 DEF Memos, StillToHear, Key
<1> QED
  BY <1>1, <1>2, <1>3

(* A rule hears: from the memo, from a fetch of its own, or that its time  *)
(* is up.  The flight it flies, if it does, ends.                          *)
LEMMA MemosAfterHearing ==
  ASSUME TypeOK, Memos, NEW r \in Rules, Asks(r) \/ Busy(r),
         NEW a \in Answers \cup {Cut}, Hear(r, a),
         a \in Answers => cached'[Key(r)] = a,
         cached' = cached \/ (stage[r] = "fetching" /\ cached' = [cached EXCEPT ![Key(r)] = a]),
         flight' = IF stage[r] = "fetching" THEN [flight EXCEPT ![Key(r)] = Nobody] ELSE flight
  PROVE  Memos'
<1> DEFINE k == Key(r)
<1>1. /\ at[r] \in 1..Len(Needs[r]) /\ k \in Keys /\ Running(r) /\ heard[r][k] = Nothing
      /\ \A i \in 1..Len(Needs[r]) : i # at[r] => Needs[r][i] # k
  BY Asking
<1>2. /\ heard' = [heard EXCEPT ![r][k] = a]
      /\ \/ stage' = [stage EXCEPT ![r] = "ready"] /\ at' = [at EXCEPT ![r] = @ + 1]
         \/ stage' = [stage EXCEPT ![r] = "ended"] /\ at' = at
  BY <1>1, Hearing
<1>3. \A s \in Rules \ {r} : stage'[s] = stage[s] /\ at'[s] = at[s] /\ Key(s)' = Key(s)
  BY <1>2 DEF TypeOK, Key
<1>4. \A s \in Rules : stage'[s] \in {"waiting", "fetching"} => s # r
  BY <1>2 DEF TypeOK
<1>5. FlightsAreFlown'
  <2>1. \A j \in Keys : flight'[j] # Nobody => flight'[j] = flight[j] /\ flight[j] # r
    BY <1>1 DEF TypeOK, Memos, FlightsAreFlown
  <2>2. \A j \in Keys : flight'[j] # Nobody => (stage[flight[j]] = "fetching" /\ Key(flight[j]) = j /\ flight[j] \in Rules \ {r})
    BY <2>1 DEF TypeOK, Memos, FlightsAreFlown
  <2>3. \A s \in Rules \ {r} : stage[s] = "fetching" => Key(s) \in Keys /\ flight[Key(s)] = s
    BY Asking DEF Memos, FlightsAreFlown, Busy
  <2>4. \A s \in Rules \ {r} : stage[s] = "fetching" => flight'[Key(s)] = s
    <3>1. stage[r] = "fetching" => flight[k] = r
      BY DEF Memos, FlightsAreFlown
    <3> QED
      BY <1>1, <2>3, <3>1 DEF TypeOK
  <2> QED
    BY <1>3, <1>4, <2>1, <2>2, <2>4 DEF FlightsAreFlown
<1>6. AsksSomething'
  BY <1>3, <1>4 DEF Memos, AsksSomething, Busy
<1>7. HeardIsCached'
  <2>1. \A s \in Rules, j \in Keys : heard'[s][j] = IF s = r /\ j = k THEN a ELSE heard[s][j]
    BY <1>1, <1>2 DEF TypeOK
  <2>2. stage[r] = "fetching" => cached[k] = Nothing
    BY DEF Memos, FlownIsOpen
  <2>3. \A j \in Keys : cached[j] # Nothing => cached'[j] = cached[j]
    BY <1>1, <2>2 DEF TypeOK
  <2> QED
    BY <2>1, <2>3, AnswersAssumption DEF Memos, HeardIsCached
<1>8. StillToHear'
  <2> SUFFICES ASSUME NEW s \in Rules, stage'[s] # "ended", NEW i \in 1..Len(Needs[s]), i >= at'[s]
               PROVE  heard'[s][Needs[s][i]] = Nothing
    BY DEF StillToHear
  <2>1. CASE s = r
    <3>1. i > at[r] /\ stage[r] # "ended"
      BY <1>1, <1>2, <2>1 DEF TypeOK, Running
    <3>2. heard[r][Needs[r][i]] = Nothing /\ Needs[r][i] # k
      BY <1>1, <2>1, <3>1 DEF Memos, StillToHear, TypeOK
    <3> QED
      BY <1>2, <2>1, <3>2 DEF TypeOK
  <2>2. CASE s # r
    BY <1>2, <1>3, <2>2 DEF Memos, StillToHear, TypeOK
  <2> QED
    BY <2>1, <2>2
<1>9. FlownIsOpen'
  <2> SUFFICES ASSUME NEW s \in Rules, stage'[s] = "fetching" PROVE cached'[Key(s)'] = Nothing
    BY DEF FlownIsOpen
  <2>1. s # r /\ stage[s] = "fetching" /\ Key(s)' = Key(s) /\ cached[Key(s)] = Nothing
    BY <1>3, <1>4 DEF Memos, FlownIsOpen
  <2>2. stage[r] = "fetching" => Key(s) # k
    BY <2>1 DEF Memos, FlightsAreFlown
  <2>3. Key(s) \in Keys
    BY <2>1, Asking DEF Busy
  <2> QED
    BY <1>1, <2>1, <2>2, <2>3 DEF TypeOK
<1> QED
  BY <1>5, <1>6, <1>7, <1>8, <1>9 DEF Memos

(* A step of the memos at which nobody hears anything.                     *)
LEMMA MemosKept == TypeOK /\ Memos /\ [Next]_vars => Memos'
<1> SUFFICES ASSUME TypeOK, Memos, [Next]_vars PROVE Memos'
  OBVIOUS
<1>1. ASSUME NEW r \in Rules, Hit(r) PROVE Memos'
  <2>1. Asks(r) /\ Hear(r, cached[Key(r)]) /\ UNCHANGED <<flight, cached>> /\ stage[r] # "fetching"
    BY <1>1 DEF Hit, memo, Asks
  <2>2. cached[Key(r)] \in Answers
    BY <1>1, <2>1, Asking DEF Hit, TypeOK
  <2> QED
    BY <2>1, <2>2, MemosAfterHearing
<1>2. ASSUME NEW r \in Rules, GiveUp(r) \/ CutOff(r) PROVE Memos'
  <2>1. /\ Busy(r) /\ Hear(r, Cut) /\ cached' = cached
        /\ flight' = IF stage[r] = "fetching" THEN [flight EXCEPT ![Key(r)] = Nobody] ELSE flight
    BY <1>2 DEF GiveUp, CutOff, Busy, memo
  <2> QED
    BY <2>1, MemosAfterHearing, AnswersAssumption
<1>3. ASSUME NEW r \in Rules, Fetched(r) PROVE Memos'
  <2>1. PICK a \in Answers : cached' = [cached EXCEPT ![Key(r)] = a] /\ Hear(r, a)
    BY <1>3 DEF Fetched
  <2>2. Busy(r) /\ stage[r] = "fetching" /\ flight' = [flight EXCEPT ![Key(r)] = Nobody]
    BY <1>3 DEF Fetched, Busy
  <2>3. cached'[Key(r)] = a
    BY <2>1, <2>2, Asking DEF TypeOK
  <2> QED
    BY <2>1, <2>2, <2>3, MemosAfterHearing
<1>4. ASSUME NEW r \in Rules, StartProbe(r) \/ NeverStart(r) \/ Decide(r) \/ Wake(r) PROVE Memos'
  <2>1. /\ \A s \in Rules : stage'[s] # stage[s] => stage[s] # "fetching" /\ stage'[s] \notin {"waiting", "fetching"} /\ stage[s] # "ended"
        /\ UNCHANGED <<at, heard, flight, cached>>
    BY <1>4 DEF StartProbe, NeverStart, Decide, Wake, End, TypeOK, memo
  <2>2. /\ \A s \in Rules : stage'[s] = "fetching" <=> stage[s] = "fetching"
        /\ \A s \in Rules : stage'[s] = "waiting" => stage[s] = "waiting"
        /\ \A s \in Rules : stage'[s] # "ended" => stage[s] # "ended"
        /\ \A s \in Rules : Key(s)' = Key(s)
    BY <2>1 DEF Key
  <2>3. FlightsAreFlown'
    <3>1. \A k \in Keys : flight[k] # Nobody => flight[k] \in Rules
      BY DEF TypeOK
    <3> QED
      BY <2>1, <2>2, <3>1 DEF Memos, FlightsAreFlown
  <2>4. AsksSomething' /\ HeardIsCached' /\ StillToHear' /\ FlownIsOpen'
    BY <2>1, <2>2 DEF Memos, AsksSomething, Busy, HeardIsCached, StillToHear, FlownIsOpen
  <2> QED
    BY <2>3, <2>4 DEF Memos
<1>5. ASSUME NEW r \in Rules, Join(r) PROVE Memos'
  <2>1. stage' = [stage EXCEPT ![r] = "waiting"] /\ stage[r] = "ready" /\ UNCHANGED <<at, heard, flight, cached>>
    BY <1>5 DEF Join, Asks, memo
  <2>2. at[r] <= Len(Needs[r])
    BY <1>5, MoreToFetch DEF Join, Asks
  <2> QED
    BY <2>1, <2>2 DEF TypeOK, Memos, FlightsAreFlown, AsksSomething, Busy, HeardIsCached, StillToHear, FlownIsOpen, Key
<1>6. ASSUME NEW r \in Rules, Fly(r) PROVE Memos'
  <2>1. /\ stage' = [stage EXCEPT ![r] = "fetching"] /\ stage[r] = "ready"
        /\ flight' = [flight EXCEPT ![Key(r)] = r] /\ flight[Key(r)] = Nobody /\ cached[Key(r)] = Nothing
        /\ UNCHANGED <<at, heard, cached>>
    BY <1>6 DEF Fly, Asks
  <2>2. at[r] <= Len(Needs[r]) /\ Key(r) \in Keys
    BY <1>6, Asking DEF Fly, Asks, TypeOK
  <2>3. \A s \in Rules : Key(s)' = Key(s)
    BY <2>1 DEF Key
  <2>4. FlightsAreFlown'
    <3>1. \A s \in Rules : stage[s] = "fetching" => s # r /\ Key(s) \in Keys /\ Key(s) # Key(r)
      BY <2>1, Asking, RulesAssumption DEF Memos, FlightsAreFlown, Busy
    <3> QED
      BY <2>1, <2>2, <2>3, <3>1 DEF TypeOK, Memos, FlightsAreFlown
  <2>5. AsksSomething' /\ StillToHear'
    BY <2>1, <2>2 DEF TypeOK, Memos, AsksSomething, Busy, StillToHear
  <2>6. HeardIsCached' /\ FlownIsOpen'
    BY <2>1, <2>3 DEF TypeOK, Memos, HeardIsCached, FlownIsOpen
  <2> QED
    BY <2>4, <2>5, <2>6 DEF Memos
<1>7. CASE UNCHANGED <<stage, at, heard, flight, cached>>
  BY <1>7 DEF Memos, FlightsAreFlown, AsksSomething, Busy, HeardIsCached, StillToHear, FlownIsOpen, Key
<1>8. ASSUME NEW r \in Rules, Expire(r) \/ Replay(r) PROVE UNCHANGED <<stage, at, heard, flight, cached>>
  BY <1>8 DEF Expire, Replay, goroutine, memo
<1>9. Interrupt \/ ScheduleReturns \/ Abort \/ UNCHANGED vars => UNCHANGED <<stage, at, heard, flight, cached>>
  BY DEF Interrupt, ScheduleReturns, Abort, vars, goroutine, memo
<1> QED
  BY <1>1, <1>2, <1>3, <1>4, <1>5, <1>6, <1>7, <1>8, <1>9 DEF Next

-----------------------------------------------------------------------------
(* What a rule ends with, and what the engine makes of it.                 *)
LEMMA OutcomeAfterHearing ==
  ASSUME IInv, NEW r \in Rules, Asks(r) \/ Busy(r), NEW a \in Answers \cup {Cut}, Hear(r, a), UNCHANGED run
  PROVE  Outcome'
<1>1. /\ at[r] \in 1..Len(Needs[r]) /\ Key(r) \in Keys /\ Running(r) /\ stage[r] # "ended"
      /\ \A i \in 1..Len(Needs[r]) : i # at[r] => Needs[r][i] # Key(r)
  BY Asking DEF IInv
<1>2. phase = "probing" /\ replayed = {}
  BY <1>1 DEF IInv, TypeOK, Outcome, StoredAtTheEnd
<1>3. heard' = [heard EXCEPT ![r][Key(r)] = a]
  BY <1>1, Hearing DEF IInv
<1>4. CASE /\ stage' = [stage EXCEPT ![r] = "ready"]
           /\ at' = [at EXCEPT ![r] = @ + 1]
           /\ UNCHANGED <<outcome, ctxErr>>
           /\ noted' = IF a \in Answers \ Failures THEN noted ELSE noted \cup {r}
  <2>1. HasHeard'
    <3> SUFFICES ASSUME NEW s \in Rules, stage'[s] # "ended", s \notin noted',
                        NEW i \in 1..Len(Needs[s]), i < at'[s]
                 PROVE  heard'[s][Needs[s][i]] \in Answers \ Failures
      BY DEF HasHeard
    <3>1. CASE s = r
      <4>1. a \in Answers \ Failures /\ r \notin noted /\ i <= at[r]
        BY <1>1, <1>4, <3>1 DEF IInv, TypeOK
      <4>2. i # at[r] => heard[r][Needs[r][i]] \in Answers \ Failures /\ Needs[r][i] # Key(r)
        BY <1>1, <3>1, <4>1 DEF IInv, Outcome, HasHeard
      <4>3. i = at[r] => Needs[r][i] = Key(r)
        BY <3>1 DEF Key
      <4> QED
        BY <1>1, <1>3, <3>1, <4>1, <4>2, <4>3 DEF IInv, TypeOK
    <3>2. CASE s # r
      BY <1>3, <1>4, <3>2 DEF IInv, TypeOK, Outcome, HasHeard
    <3> QED
      BY <3>1, <3>2
  <2>2. outcome[r] # "clean"
    BY <1>1, <1>2 DEF IInv, Outcome, StoredAtTheEnd, NotStored
  <2>3. CleanIsInformed'
    BY <1>3, <1>4, <2>2 DEF IInv, TypeOK, Outcome, CleanIsInformed
  <2>4. StoredAtTheEnd'
    BY <1>1, <1>2, <1>4 DEF IInv, TypeOK, Outcome, StoredAtTheEnd, run
  <2>5. ReportIsWhole'
    BY <1>2 DEF ReportIsWhole, run
  <2> QED
    BY <2>1, <2>3, <2>4, <2>5 DEF Outcome
<1>5. CASE /\ stage' = [stage EXCEPT ![r] = "ended"]
           /\ ctxErr' = [ctxErr EXCEPT ![r] = "none"]
           /\ \E what \in {"timed-out", "cancelled", "unavailable"} :
                /\ outcome' = [outcome EXCEPT ![r] = what]
                /\ what = "cancelled" => ctxErr[r] = "canceled"
           /\ UNCHANGED <<at, noted>>
  <2>1. PICK what \in {"timed-out", "cancelled", "unavailable"} :
           outcome' = [outcome EXCEPT ![r] = what] /\ (what = "cancelled" => ctxErr[r] = "canceled")
    BY <1>5
  <2>2. HasHeard'
    BY <1>3, <1>5 DEF IInv, TypeOK, Outcome, HasHeard
  <2>3. CleanIsInformed'
    BY <1>3, <2>1 DEF IInv, TypeOK, Outcome, CleanIsInformed
  <2>4. StoredAtTheEnd'
    BY <1>2, <1>5, <2>1 DEF IInv, TypeOK, Outcome, StoredAtTheEnd, run, NotStored
  <2>5. ReportIsWhole'
    BY <1>2 DEF ReportIsWhole, run
  <2> QED
    BY <2>2, <2>3, <2>4, <2>5 DEF Outcome
<1> QED
  BY <1>1, <1>4, <1>5, Hearing DEF IInv

LEMMA OutcomeKept == IInv /\ [Next]_vars => Outcome'
<1> SUFFICES ASSUME IInv, [Next]_vars PROVE Outcome'
  OBVIOUS
<1>1. ASSUME NEW r \in Rules, Hit(r) PROVE Outcome'
  <2>1. Asks(r) /\ Hear(r, cached[Key(r)]) /\ UNCHANGED run
    BY <1>1 DEF Hit
  <2>2. cached[Key(r)] \in Answers
    BY <1>1, <2>1, Asking DEF Hit, IInv, TypeOK
  <2> QED
    BY <2>1, <2>2, OutcomeAfterHearing
<1>2. ASSUME NEW r \in Rules, GiveUp(r) \/ CutOff(r) PROVE Outcome'
  BY <1>2, OutcomeAfterHearing DEF GiveUp, CutOff, Busy
<1>3. ASSUME NEW r \in Rules, Fetched(r) PROVE Outcome'
  BY <1>3, OutcomeAfterHearing DEF Fetched, Busy
<1>4. ASSUME NEW r \in Rules, Decide(r) PROVE Outcome'
  <2>1. /\ stage[r] = "ready" /\ at[r] = Len(Needs[r]) + 1 /\ stage' = [stage EXCEPT ![r] = "ended"]
        /\ ctxErr' = [ctxErr EXCEPT ![r] = "none"] /\ UNCHANGED <<at, heard, noted, run>>
    BY <1>4 DEF Decide, End, AllFetched
  <2>2. PICK what \in {"finding", "unavailable", "clean"} :
           outcome' = [outcome EXCEPT ![r] = what] /\ (what = "clean" => r \notin noted)
    BY <1>4 DEF Decide, End
  <2>3. phase = "probing" /\ replayed = {}
    BY <2>1 DEF IInv, TypeOK, Outcome, StoredAtTheEnd
  <2>4. HasHeard'
    BY <2>1 DEF IInv, TypeOK, Outcome, HasHeard
  <2>5. Len(Needs[r]) \in Nat
    BY NeedsAssumption
  <2>6. r \notin noted => \A i \in 1..Len(Needs[r]) : heard[r][Needs[r][i]] \in Answers \ Failures
    BY <2>1, <2>5 DEF IInv, Outcome, HasHeard
  <2>7. CleanIsInformed'
    BY <2>1, <2>2, <2>6 DEF IInv, TypeOK, Outcome, CleanIsInformed
  <2>8. StoredAtTheEnd'
    BY <2>1, <2>2, <2>3 DEF IInv, TypeOK, Outcome, StoredAtTheEnd, run, NotStored
  <2>9. ReportIsWhole'
    BY <2>1, <2>3 DEF ReportIsWhole, run
  <2> QED
    BY <2>4, <2>7, <2>8, <2>9 DEF Outcome
<1>5. ASSUME NEW r \in Rules, StartProbe(r) \/ NeverStart(r) PROVE Outcome'
  <2>1. /\ stage[r] = "queued" /\ UNCHANGED <<at, heard, noted, outcome, run>>
        /\ \/ stage' = [stage EXCEPT ![r] = "ready"] /\ ctxErr' = [ctxErr EXCEPT ![r] = IF cancelled THEN "canceled" ELSE "none"]
           \/ cancelled /\ stage' = [stage EXCEPT ![r] = "ended"] /\ ctxErr' = ctxErr
    BY <1>5 DEF StartProbe, NeverStart
  <2>2. phase = "probing" /\ replayed = {}
    BY <2>1 DEF IInv, TypeOK, Outcome, StoredAtTheEnd
  <2>3. HasHeard' /\ CleanIsInformed'
    BY <2>1 DEF IInv, TypeOK, Outcome, HasHeard, CleanIsInformed
  <2>4. StoredAtTheEnd' /\ ReportIsWhole'
    BY <2>1, <2>2 DEF IInv, TypeOK, Outcome, StoredAtTheEnd, ReportIsWhole, run
  <2> QED
    BY <2>3, <2>4 DEF Outcome
<1>6. ASSUME NEW r \in Rules, Expire(r) \/ Join(r) \/ Wake(r) \/ Fly(r) PROVE Outcome'
  <2>1. /\ \A s \in Rules : stage'[s] = "ended" <=> stage[s] = "ended"
        /\ \A s \in Rules : ctxErr'[s] = "canceled" => ctxErr[s] = "canceled"
        /\ UNCHANGED <<at, heard, noted, outcome, run>>
    BY <1>6 DEF Expire, Running, Join, Wake, Fly, Asks, IInv, TypeOK
  <2> QED
    BY <2>1 DEF IInv, Outcome, HasHeard, CleanIsInformed, StoredAtTheEnd, ReportIsWhole, run
<1>7. ASSUME NEW r \in Rules, Replay(r) PROVE Outcome'
  <2>1. /\ phase = "replaying" /\ ~cancelled /\ phase' \in {"replaying", "reported"} /\ UNCHANGED <<goroutine, cancelled>>
        /\ replayed' = replayed \cup {r}
    BY <1>7 DEF Replay
  <2>2. HasHeard' /\ CleanIsInformed' /\ StoredAtTheEnd'
    BY <2>1 DEF IInv, Outcome, HasHeard, CleanIsInformed, StoredAtTheEnd, goroutine
  <2>3. ReportIsWhole'
    BY <2>1 DEF IInv, Outcome, StoredAtTheEnd, ReportIsWhole, goroutine
  <2> QED
    BY <2>2, <2>3 DEF Outcome
<1>8. CASE Interrupt
  BY <1>8 DEF Interrupt, IInv, Outcome, HasHeard, CleanIsInformed, StoredAtTheEnd, ReportIsWhole
<1>9. CASE ScheduleReturns
  <2>1. /\ phase = "probing" /\ phase' = "replaying" /\ \A r \in Rules : stage[r] = "ended"
        /\ outcome' = [r \in Rules |-> IF outcome[r] = NotStored THEN "cancelled" ELSE outcome[r]]
        /\ UNCHANGED <<stage, at, ctxErr, heard, noted, cancelled, replayed>>
    BY <1>9 DEF ScheduleReturns
  <2>2. HasHeard' /\ CleanIsInformed' /\ ReportIsWhole'
    BY <2>1 DEF IInv, Outcome, HasHeard, CleanIsInformed, StoredAtTheEnd, ReportIsWhole
  <2>3. StoredAtTheEnd'
    BY <2>1 DEF IInv, Outcome, StoredAtTheEnd, NotStored
  <2> QED
    BY <2>2, <2>3 DEF Outcome
<1>10. CASE Abort \/ UNCHANGED vars
  BY <1>10 DEF Abort, vars, goroutine, run, IInv, Outcome, HasHeard, CleanIsInformed, StoredAtTheEnd, ReportIsWhole
<1> QED
  BY <1>1, <1>2, <1>3, <1>4, <1>5, <1>6, <1>7, <1>8, <1>9, <1>10 DEF Next

-----------------------------------------------------------------------------
LEMMA Invariance == Spec => []IInv
<1>1. IInv /\ [Next]_vars => IInv'
  BY TypesKept, MemosKept, OutcomeKept DEF IInv, Memos
<1> QED
  BY InitHolds, <1>1, PTL DEF Spec

(* The variables keep their types, and no more probes are in flight than   *)
(* --parallelism allows (scheduler.go, the semaphore of Run).              *)
THEOREM ProbesTypeCorrect == Spec => []TypeOK
<1>1. IInv => TypeOK
  BY DEF IInv
<1> QED
  BY Invariance, <1>1, PTL

(* Two rules that hear an answer to one question hear the same, whatever   *)
(* is in flight, is cut off or is asked again (run.go, memo.get).          *)
THEOREM AnsweredOnce == Spec => []OneAnswer
<1>1. IInv => OneAnswer
  BY DEF IInv, Memos, HeardIsCached, OneAnswer
<1> QED
  BY Invariance, <1>1, PTL

(* No rule reports a clean result without having read all it needed.       *)
THEOREM CleanKnows == Spec => []CleanIsInformed
<1>1. IInv => CleanIsInformed
  BY DEF IInv, Outcome
<1> QED
  BY Invariance, <1>1, PTL

(* The engine never takes the outcome of a rule that an interrupt cut off  *)
(* or kept from starting (schedule.go and the replay in rules.go).         *)
THEOREM NoHalfReport == Spec => []ReportIsWhole
<1>1. IInv => ReportIsWhole
  BY DEF IInv, Outcome
<1> QED
  BY Invariance, <1>1, PTL

-----------------------------------------------------------------------------
(* The scheduler and the memos implement SharedAnswer: every step settles  *)
(* a question, repeats its answer, gives up on it, or leaves both alone.   *)
LEMMA HearsOnce ==
  ASSUME IInv, NEW r \in Rules, Asks(r) \/ Busy(r), NEW a \in Answers \cup {Cut}, Hear(r, a)
  PROVE  Key(r) \in Keys /\ Promise!Hears(r, Key(r), a)
<1>1. at[r] \in 1..Len(Needs[r]) /\ Key(r) \in Keys /\ Running(r) /\ heard[r][Key(r)] = Nothing
  BY Asking DEF IInv
<1>2. heard' = [heard EXCEPT ![r][Key(r)] = a]
  BY <1>1, Hearing DEF IInv
<1> QED
  BY <1>1, <1>2 DEF Promise!Hears

LEMMA StepRefines == IInv /\ [Next]_vars => [Promise!Next]_<<cached, heard>>
<1> SUFFICES ASSUME IInv, [Next]_vars, ~UNCHANGED <<cached, heard>> PROVE Promise!Next
  OBVIOUS
<1>1. ASSUME NEW r \in Rules, Hit(r) PROVE Promise!Next
  <2>1. Asks(r) /\ Hear(r, cached[Key(r)]) /\ cached' = cached /\ cached[Key(r)] # Nothing
    BY <1>1 DEF Hit, memo
  <2>2. Key(r) \in Keys /\ cached[Key(r)] \in Answers
    BY <2>1, Asking DEF IInv, TypeOK
  <2>3. Promise!Repeat(r, Key(r))
    BY <2>1, <2>2, HearsOnce DEF Promise!Repeat
  <2> QED
    BY <2>2, <2>3 DEF Promise!Next
<1>2. ASSUME NEW r \in Rules, GiveUp(r) \/ CutOff(r) PROVE Promise!Next
  <2>1. Busy(r) /\ Hear(r, Cut) /\ cached' = cached
    BY <1>2 DEF GiveUp, CutOff, Busy, memo
  <2>2. Key(r) \in Keys /\ Promise!GiveUp(r, Key(r))
    BY <2>1, HearsOnce DEF Promise!GiveUp
  <2> QED
    BY <2>2 DEF Promise!Next
<1>3. ASSUME NEW r \in Rules, Fetched(r) PROVE Promise!Next
  <2>1. PICK a \in Answers : cached' = [cached EXCEPT ![Key(r)] = a] /\ Hear(r, a)
    BY <1>3 DEF Fetched
  <2>2. Busy(r) /\ cached[Key(r)] = Nothing
    BY <1>3 DEF Fetched, Busy, IInv, Memos, FlownIsOpen
  <2>3. Key(r) \in Keys /\ Promise!Settle(r, Key(r), a)
    BY <2>1, <2>2, HearsOnce DEF Promise!Settle
  <2> QED
    BY <2>3 DEF Promise!Next
<1>4. ASSUME NEW r \in Rules,
             StartProbe(r) \/ NeverStart(r) \/ Expire(r) \/ Decide(r) \/ Join(r) \/ Wake(r) \/ Fly(r) \/ Replay(r)
      PROVE  UNCHANGED <<cached, heard>>
  BY <1>4 DEF StartProbe, NeverStart, Expire, Decide, Join, Wake, Fly, Replay, goroutine, memo
<1>5. Interrupt \/ ScheduleReturns \/ Abort \/ UNCHANGED vars => UNCHANGED <<cached, heard>>
  BY DEF Interrupt, ScheduleReturns, Abort, vars, goroutine, memo
<1> QED
  BY <1>1, <1>2, <1>3, <1>4, <1>5 DEF Next

(* The memos keep the promise of SharedAnswer, for any rules and questions.*)
THEOREM MemosKeepThePromise == Spec => KeepsPromise
<1>1. Init => Promise!Init
  BY DEF Init, Promise!Init
<1> QED
  BY Invariance, StepRefines, <1>1, PTL DEF Spec, KeepsPromise, Promise!Spec
=============================================================================
