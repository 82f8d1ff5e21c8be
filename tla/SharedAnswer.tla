---------------------------- MODULE SharedAnswer ----------------------------
(***************************************************************************)
(* What the runtime rules are promised about a question several of them    *)
(* ask: it is answered once, everybody who hears an answer hears that one, *)
(* and a caller who runs out of time hears so for itself only.             *)
(***************************************************************************)
CONSTANTS
  Rules,    \* who asks
  Keys,     \* what is asked
  Answers,  \* what Azure may answer, refusals included
  Nothing,  \* no answer yet
  Cut       \* the caller's time ran out

VARIABLES
  answer,   \* [Keys -> Answers or Nothing]
  heard     \* [Rules -> [Keys -> Answers, Cut or Nothing]]

Init ==
  /\ answer = [k \in Keys |-> Nothing]
  /\ heard = [r \in Rules |-> [k \in Keys |-> Nothing]]

Hears(r, k, a) ==
  /\ heard[r][k] = Nothing
  /\ heard' = [heard EXCEPT ![r][k] = a]

\* The first answer settles the question; whoever asked hears it at once.
Settle(r, k, a) ==
  /\ answer[k] = Nothing
  /\ answer' = [answer EXCEPT ![k] = a]
  /\ Hears(r, k, a)

Repeat(r, k) ==
  /\ answer[k] # Nothing
  /\ Hears(r, k, answer[k])
  /\ UNCHANGED answer

GiveUp(r, k) ==
  /\ Hears(r, k, Cut)
  /\ UNCHANGED answer

Next ==
  \E r \in Rules, k \in Keys :
    \/ \E a \in Answers : Settle(r, k, a)
    \/ Repeat(r, k)
    \/ GiveUp(r, k)

Spec == Init /\ [][Next]_<<answer, heard>>
=============================================================================
