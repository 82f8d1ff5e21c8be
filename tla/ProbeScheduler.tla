--------------------------- MODULE ProbeScheduler ---------------------------
(***************************************************************************)
(* How "foundry-doctor runtime" evaluates its rules: runtime.Scheduler     *)
(* runs them side by side with a bound and a timeout for each              *)
(* (internal/runtime/scheduler.go), the rules share what they fetch        *)
(* through single-flight memos (internal/rules/run/run.go), and the engine *)
(* replays the stored outcomes one after the other                         *)
(* (internal/rules/run/schedule.go, internal/rules/rules.go).              *)
(*                                                                         *)
(* A rule is the list of keys it fetches before it decides.  A fetch that  *)
(* fails either ends the rule or is noted by it.                           *)
(***************************************************************************)
EXTENDS Integers, Sequences, FiniteSets

CONSTANTS
  Rules,        \* the selected rules
  Keys,         \* what the memos hold: project, hosts, connections, ...
  Needs,        \* [Rules -> Seq(Keys)]: what a rule fetches, in order, each key once
  Answers,      \* what a fetch may return
  Failures,     \* the answers that are errors
  Parallelism,  \* Options.Parallelism
  Nothing, Nobody, Cut

ASSUME RulesAssumption == Rules # {} /\ IsFiniteSet(Rules) /\ Nobody \notin Rules
ASSUME NeedsAssumption ==
  /\ Needs \in [Rules -> Seq(Keys)]
  /\ \A r \in Rules : \A i, j \in 1..Len(Needs[r]) : Needs[r][i] = Needs[r][j] => i = j
ASSUME AnswersAssumption == Failures \subseteq Answers /\ Nothing \notin Answers /\ Cut \notin Answers /\ Nothing # Cut
ASSUME ParallelismAssumption == Parallelism \in Nat \ {0}

VARIABLES
  stage,     \* [Rules -> where its goroutine is]
  at,        \* [Rules -> the number of its next fetch]
  waitsFor,  \* [Rules -> the flight it waits for, named by who flies it]
  ctxErr,    \* [Rules -> why its context is done, "none" while it is not]
  heard,     \* [Rules -> [Keys -> what a fetch returned to it]]
  noted,     \* the rules that noted a failed fetch and went on
  outcome,   \* [Rules -> what was stored for it]
  flight,    \* [Keys -> who fetches]
  cached,    \* [Keys -> the answer kept]
  cancelled, \* the run was interrupted
  phase,     \* "probing", "replaying", "reported" or "aborted"
  replayed   \* the rules the engine has taken the outcome of

goroutine == <<stage, at, waitsFor, ctxErr, heard, noted, outcome>>
memo == <<flight, cached>>
run == <<cancelled, phase, replayed>>
vars == <<goroutine, memo, run>>

NotStored == "not stored"
Outcomes == {"finding", "clean", "unavailable", "timed-out", "cancelled"}

Running(r) == stage[r] \in {"ready", "waiting", "fetching"}
Key(r) == Needs[r][at[r]]
AllFetched(r) == at[r] = Len(Needs[r]) + 1

Init ==
  /\ stage = [r \in Rules |-> "queued"]
  /\ at = [r \in Rules |-> 1]
  /\ waitsFor = [r \in Rules |-> Nobody]
  /\ ctxErr = [r \in Rules |-> "none"]
  /\ heard = [r \in Rules |-> [k \in Keys |-> Nothing]]
  /\ noted = {}
  /\ outcome = [r \in Rules |-> NotStored]
  /\ flight = [k \in Keys |-> Nobody]
  /\ cached = [k \in Keys |-> Nothing]
  /\ cancelled = FALSE /\ phase = "probing" /\ replayed = {}

-----------------------------------------------------------------------------
(* The scheduler.                                                          *)

startOneTooMany(r) ==
  /\ stage[r] = "queued"
  /\ Cardinality({s \in Rules : Running(s)}) <= Parallelism
  /\ stage' = [stage EXCEPT ![r] = "ready"]
  /\ ctxErr' = [ctxErr EXCEPT ![r] = IF cancelled THEN "canceled" ELSE "none"]
  /\ UNCHANGED <<at, waitsFor, heard, noted, outcome, memo, run>>
\* A slot of the semaphore is free.  The select may take it also when the run
\* has just been cancelled; the probe's context is then done from the start.
StartProbe(r) ==
  /\ stage[r] = "queued"
  /\ Cardinality({s \in Rules : Running(s)}) < Parallelism
  /\ stage' = [stage EXCEPT ![r] = "ready"]
  /\ ctxErr' = [ctxErr EXCEPT ![r] = IF cancelled THEN "canceled" ELSE "none"]
  /\ UNCHANGED <<at, waitsFor, heard, noted, outcome, memo, run>>

NeverStart(r) ==
  /\ stage[r] = "queued" /\ cancelled
  /\ stage' = [stage EXCEPT ![r] = "ended"]
  /\ UNCHANGED <<at, waitsFor, ctxErr, heard, noted, outcome, memo, run>>

neverExpire(r) == FALSE /\ UNCHANGED <<vars, stage[r]>>
\* The probe's --timeout.
Expire(r) ==
  /\ Running(r) /\ ctxErr[r] = "none"
  /\ ctxErr' = [ctxErr EXCEPT ![r] = "deadline"]
  /\ UNCHANGED <<stage, at, waitsFor, heard, noted, outcome, memo, run>>

\* An interrupt reaches every context that is not done yet.
Interrupt ==
  /\ ~cancelled /\ phase \in {"probing", "replaying"}
  /\ cancelled' = TRUE
  /\ ctxErr' = [r \in Rules |-> IF Running(r) /\ ctxErr[r] = "none" THEN "canceled" ELSE ctxErr[r]]
  /\ UNCHANGED <<stage, at, waitsFor, heard, noted, outcome, memo, phase, replayed>>

-----------------------------------------------------------------------------
(* The end of a rule: Evaluate turns an error into an outcome and stores   *)
(* it, the context is released and the slot is given back.                 *)

End(r, what) ==
  /\ stage' = [stage EXCEPT ![r] = "ended"]
  /\ outcome' = [outcome EXCEPT ![r] = what]
  /\ ctxErr' = [ctxErr EXCEPT ![r] = "none"]

ofError(r) ==
  CASE ctxErr[r] = "deadline" -> "timed-out"
    [] ctxErr[r] = "canceled" -> "cancelled"
    [] OTHER -> "unavailable"

hearInSilence(r, a) ==
  /\ heard' = [heard EXCEPT ![r][Key(r)] = a]
  /\ at' = [at EXCEPT ![r] = @ + 1]
  /\ stage' = [stage EXCEPT ![r] = "ready"]
  /\ UNCHANGED <<noted, outcome, ctxErr>>
\* What a fetch returned to the rule.  An error ends the rule, or the rule notes
\* it and goes on.
Hear(r, a) ==
  /\ heard' = [heard EXCEPT ![r][Key(r)] = a]
  /\ \/ /\ a \in Answers \ Failures
        /\ at' = [at EXCEPT ![r] = @ + 1]
        /\ stage' = [stage EXCEPT ![r] = "ready"]
        /\ UNCHANGED <<noted, outcome, ctxErr>>
     \/ /\ a \in Failures \union {Cut}
        /\ at' = [at EXCEPT ![r] = @ + 1]
        /\ stage' = [stage EXCEPT ![r] = "ready"]
        /\ noted' = noted \union {r}
        /\ UNCHANGED <<outcome, ctxErr>>
     \/ /\ a \in Failures \union {Cut}
        /\ End(r, ofError(r))
        /\ UNCHANGED <<at, noted>>

\* Findings win over what could not be read, and that over a clean result (acc.result).
Decide(r) ==
  /\ stage[r] = "ready" /\ AllFetched(r)
  /\ \/ End(r, "finding")
     \/ r \in noted /\ End(r, "unavailable")
     \/ r \notin noted /\ End(r, "clean")
  /\ UNCHANGED <<at, waitsFor, heard, noted, memo, run>>

-----------------------------------------------------------------------------
(* memo.get                                                                *)

Asks(r) == stage[r] = "ready" /\ ~AllFetched(r)

Hit(r) ==
  /\ Asks(r) /\ cached[Key(r)] # Nothing
  /\ Hear(r, cached[Key(r)])
  /\ UNCHANGED <<waitsFor, memo, run>>

Join(r) ==
  /\ Asks(r) /\ cached[Key(r)] = Nothing /\ flight[Key(r)] # Nobody
  /\ stage' = [stage EXCEPT ![r] = "waiting"]
  /\ waitsFor' = [waitsFor EXCEPT ![r] = flight[Key(r)]]
  /\ UNCHANGED <<at, ctxErr, heard, noted, outcome, memo, run>>

\* The channel of the flight is closed; the caller looks again.
Wake(r) ==
  /\ stage[r] = "waiting" /\ flight[Key(r)] # waitsFor[r]
  /\ stage' = [stage EXCEPT ![r] = "ready"]
  /\ waitsFor' = [waitsFor EXCEPT ![r] = Nobody]
  /\ UNCHANGED <<at, ctxErr, heard, noted, outcome, memo, run>>

GiveUp(r) ==
  /\ stage[r] = "waiting" /\ ctxErr[r] # "none"
  /\ Hear(r, Cut)
  /\ waitsFor' = [waitsFor EXCEPT ![r] = Nobody]
  /\ UNCHANGED <<memo, run>>

flyAnyway(r) ==
  /\ Asks(r) /\ cached[Key(r)] = Nothing
  /\ stage' = [stage EXCEPT ![r] = "fetching"]
  /\ flight' = [flight EXCEPT ![Key(r)] = r]
  /\ UNCHANGED <<at, waitsFor, ctxErr, heard, noted, outcome, cached, run>>

Fly(r) ==
  /\ Asks(r) /\ cached[Key(r)] = Nothing /\ flight[Key(r)] = Nobody
  /\ stage' = [stage EXCEPT ![r] = "fetching"]
  /\ flight' = [flight EXCEPT ![Key(r)] = r]
  /\ UNCHANGED <<at, waitsFor, ctxErr, heard, noted, outcome, cached, run>>

Fetched(r) ==
  /\ stage[r] = "fetching"
  /\ \E a \in Answers : cached' = [cached EXCEPT ![Key(r)] = a] /\ Hear(r, a)
  /\ flight' = [flight EXCEPT ![Key(r)] = Nobody]
  /\ UNCHANGED <<waitsFor, run>>

cutOffForEverybody(r) ==
  /\ stage[r] = "fetching"
  /\ Hear(r, Cut)
  /\ flight' = [flight EXCEPT ![Key(r)] = Nobody]
  /\ cached' = [cached EXCEPT ![Key(r)] = Cut]
  /\ UNCHANGED <<waitsFor, run>>
\* The fetch ends in a context error: the probe's own, or the timeout of the
\* HTTP client below it.  It is not kept.
CutOff(r) ==
  /\ stage[r] = "fetching"
  /\ Hear(r, Cut)
  /\ flight' = [flight EXCEPT ![Key(r)] = Nobody]
  /\ UNCHANGED <<waitsFor, cached, run>>

-----------------------------------------------------------------------------
(* schedule returns, and the engine replays.                               *)

ScheduleReturns ==
  /\ phase = "probing" /\ \A r \in Rules : stage[r] = "ended"
  /\ phase' = "replaying"
  /\ outcome' = [r \in Rules |-> IF outcome[r] = NotStored THEN "cancelled" ELSE outcome[r]]
  /\ UNCHANGED <<stage, at, waitsFor, ctxErr, heard, noted, memo, cancelled, replayed>>

replayAnyway(r) ==
  /\ phase = "replaying" /\ r \notin replayed
  /\ replayed' = replayed \union {r}
  /\ phase' = IF replayed' = Rules THEN "reported" ELSE "replaying"
  /\ UNCHANGED <<goroutine, memo, cancelled>>

Replay(r) ==
  /\ phase = "replaying" /\ ~cancelled /\ r \notin replayed
  /\ replayed' = replayed \union {r}
  /\ phase' = IF replayed' = Rules THEN "reported" ELSE "replaying"
  /\ UNCHANGED <<goroutine, memo, cancelled>>

Abort ==
  /\ phase = "replaying" /\ cancelled
  /\ phase' = "aborted"
  /\ UNCHANGED <<goroutine, memo, cancelled, replayed>>

Next ==
  \/ \E r \in Rules :
       \/ StartProbe(r) \/ NeverStart(r) \/ Expire(r) \/ Decide(r)
       \/ Hit(r) \/ Join(r) \/ Wake(r) \/ GiveUp(r) \/ Fly(r) \/ Fetched(r) \/ CutOff(r)
       \/ Replay(r)
  \/ Interrupt \/ ScheduleReturns \/ Abort

\* The Go scheduler runs every goroutine that can go on, timers fire, and a
\* request whose context is done returns.  Azure need not answer, nobody need
\* interrupt.
CutOffByContext(r) == ctxErr[r] # "none" /\ CutOff(r)
Fairness ==
  /\ \A r \in Rules :
       /\ WF_vars(StartProbe(r) \/ NeverStart(r))
       /\ WF_vars(Hit(r) \/ Join(r) \/ Fly(r) \/ Decide(r))
       /\ WF_vars(Wake(r) \/ GiveUp(r))
       /\ WF_vars(Expire(r))
       /\ WF_vars(CutOffByContext(r))
       /\ WF_vars(Replay(r))
  /\ WF_vars(ScheduleReturns)
  /\ WF_vars(Abort)

Spec == Init /\ [][Next]_vars
FairSpec == Spec /\ Fairness

-----------------------------------------------------------------------------
(* Properties.                                                             *)

\* Types, and the bound on the probes in flight.
TypeOK ==
  /\ Cardinality({r \in Rules : Running(r)}) <= Parallelism
  /\ stage \in [Rules -> {"queued", "ready", "waiting", "fetching", "ended"}]
  /\ at \in [Rules -> Nat \ {0}] /\ \A r \in Rules : at[r] <= Len(Needs[r]) + 1
  /\ waitsFor \in [Rules -> Rules \union {Nobody}]
  /\ ctxErr \in [Rules -> {"none", "deadline", "canceled"}]
  /\ heard \in [Rules -> [Keys -> Answers \union {Nothing, Cut}]]
  /\ noted \subseteq Rules
  /\ outcome \in [Rules -> Outcomes \union {NotStored}]
  /\ flight \in [Keys -> Rules \union {Nobody}]
  /\ cached \in [Keys -> Answers \union {Nothing}]
  /\ cancelled \in BOOLEAN
  /\ phase \in {"probing", "replaying", "reported", "aborted"}
  /\ replayed \subseteq Rules

\* Two rules never decide from different answers to the same question, whoever
\* fetched it, waited for it or came later (memo: caches one fetch for the
\* lifetime of a run).
OneAnswer ==
  \A r, s \in Rules, k \in Keys :
    heard[r][k] \in Answers /\ heard[s][k] \in Answers => heard[r][k] = heard[s][k]

\* A rule is clean only if it read everything it needed: a timeout, a refusal, a
\* flight of another rule that was cut off never turn into silence.
CleanIsInformed ==
  \A r \in Rules : outcome[r] = "clean" =>
    \A i \in 1..Len(Needs[r]) : heard[r][Needs[r][i]] \in Answers \ Failures

\* A report is whole: no rule of a run that was interrupted before the engine
\* took its outcome is in it, whenever the interrupt came.
ReportIsWhole ==
  \A r \in replayed : outcome[r] \notin {"cancelled", NotStored}

\* A question in flight has somebody who flies it, and whoever waits will be
\* woken or is under a context that ends.
FlightsAreFlown ==
  /\ \A k \in Keys : flight[k] # Nobody => stage[flight[k]] = "fetching" /\ Key(flight[k]) = k
  /\ \A r \in Rules : stage[r] = "fetching" => flight[Key(r)] = r

\* The run ends, with a report or without, although Azure may never answer.
Ends == <>(phase \in {"reported", "aborted"})

\* The memos keep the promise of SharedAnswer.
Promise == INSTANCE SharedAnswer WITH answer <- cached
KeepsPromise == Promise!Spec
=============================================================================
