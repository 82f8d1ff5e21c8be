----------------------------- MODULE ArmClient -----------------------------
(***************************************************************************)
(* The read-only ARM client of foundry-doctor (internal/azure): transport.go*)
(* and the credential of auth.go.  Several goroutines call it under one     *)
(* context.  A call is a listing of pages, or the one page of a GET; every  *)
(* page is a request of its own, which waits for one of the client's slots, *)
(* keeps it through its retries, and gives it back whatever happens.        *)
(***************************************************************************)
EXTENDS Integers, FiniteSets

CONSTANTS Calls,        \* the calls the goroutines make
          Slots,        \* Options.MaxConcurrency
          MaxRetries,   \* Options.MaxRetries
          MaxPages,     \* maxPages, the pages a listing reads at most
          PagesThere,   \* the numbers of pages Azure may hold, per call
          Nothing       \* the result of a call under way

ASSUME ArmClientAssumption ==
    /\ IsFiniteSet(Calls)
    /\ Slots \in Nat \ {0} /\ MaxRetries \in Nat /\ MaxPages \in Nat \ {0}
    /\ \A c \in Calls : PagesThere[c] \subseteq Nat \ {0}

VARIABLES stage,      \* where each call is
          attempt,    \* the retries its request has made
          page,       \* the pages it has read
          result,     \* what it returned
          there,      \* the pages Azure holds for it
          taken,      \* the slots in use
          cancelled   \* the context of the calls has ended
callVars == <<stage, attempt, page, result, there, taken, cancelled>>

Stages == {"idle", "queued", "token", "minting", "sent", "asleep", "done"}
\* list's items with truncated false and true, and the errors a caller tells
\* apart: *UnavailableError, ErrNotAllowed, the context's, any other.
Listed == {"whole", "cut"}
Errors == {"unavailable", "not allowed", "cancelled", "failed"}
ASSUME NothingAssumption == Nothing \notin Listed \cup Errors

\* The stages in which a request holds a slot.
Holding == {"token", "minting", "sent", "asleep"}

CallsInit ==
    /\ stage = [c \in Calls |-> "idle"]
    /\ attempt = [c \in Calls |-> 0]
    /\ page = [c \in Calls |-> 0]
    /\ result = [c \in Calls |-> Nothing]
    /\ there \in [Calls -> UNION {PagesThere[c] : c \in Calls}]
    /\ \A c \in Calls : there[c] \in PagesThere[c]
    /\ taken = 0
    /\ cancelled = FALSE

\* A request of c begins or, under an ended context, does not.
Requested(c) == IF cancelled THEN "done" ELSE "queued"
Refused(c) == IF cancelled THEN "cancelled" ELSE Nothing

Ask(S) ==
    /\ \A c \in S : stage[c] = "idle"
    /\ stage' = [c \in Calls |-> IF c \in S THEN Requested(c) ELSE stage[c]]
    /\ result' = [c \in Calls |-> IF c \in S THEN Refused(c) ELSE result[c]]
    /\ UNCHANGED <<attempt, page, there, taken, cancelled>>

\* A path, a query key or a body that is on no entry of the allow-list, such as
\* a role definition of a management group: nothing is sent.
NotOnAllowList(c) ==
    /\ stage[c] = "queued"
    /\ page[c] = 0
    /\ stage' = [stage EXCEPT ![c] = "done"]
    /\ result' = [result EXCEPT ![c] = "not allowed"]
    /\ UNCHANGED <<attempt, page, there, taken, cancelled>>

\* Both branches of the select may be ready; Go takes either.
Acquire(c) ==
    /\ stage[c] = "queued" /\ taken < Slots
    /\ stage' = [stage EXCEPT ![c] = "token"]
    /\ taken' = taken + 1
    /\ UNCHANGED <<attempt, page, result, there, cancelled>>
NoSlot(c) ==
    /\ stage[c] = "queued" /\ cancelled
    /\ stage' = [stage EXCEPT ![c] = "done"]
    /\ result' = [result EXCEPT ![c] = "cancelled"]
    /\ UNCHANGED <<attempt, page, there, taken, cancelled>>

\* chainCredential.Token takes the token in its cache if it has two minutes
\* left, and without the lock asks azd or az for one otherwise.
Token(c) ==
    /\ stage[c] = "token"
    /\ \E how \in {"sent", "minting"} : stage' = [stage EXCEPT ![c] = how]
    /\ UNCHANGED <<attempt, page, result, there, taken, cancelled>>
Mint(c) ==
    /\ stage[c] = "minting"
    /\ stage' = [stage EXCEPT ![c] = "sent"]
    /\ UNCHANGED <<attempt, page, result, there, taken, cancelled>>

\* doQuery returns err: the deferred receive frees the slot, list drops what
\* it has read.
Fail(c, err) ==
    /\ stage' = [stage EXCEPT ![c] = "done"]
    /\ result' = [result EXCEPT ![c] = err]
    /\ taken' = taken - 1
    /\ UNCHANGED <<attempt, page, there, cancelled>>
NoToken(c) ==
    /\ stage[c] = "minting"
    /\ Fail(c, IF cancelled THEN "cancelled" ELSE "unavailable")

\* A page arrives; list goes on with nextLink in a request of its own.
keepSlot(c) == taken
Freed(c) == taken - 1
cutUnsaid(c) == IF page[c] + 1 \in {there[c], MaxPages} THEN "whole" ELSE Nothing
Conclusion(c) ==
    CASE page[c] + 1 = there[c] -> "whole"
      [] page[c] + 1 # there[c] /\ page[c] + 1 = MaxPages -> "cut"
      [] OTHER -> Nothing
PageRead(c) ==
    /\ stage[c] = "sent"
    /\ page' = [page EXCEPT ![c] = page[c] + 1]
    /\ taken' = Freed(c)
    /\ attempt' = [attempt EXCEPT ![c] = 0]
    /\ stage' = [stage EXCEPT ![c] = IF Conclusion(c) # Nothing THEN "done" ELSE Requested(c)]
    /\ result' = [result EXCEPT ![c] = IF Conclusion(c) # Nothing THEN Conclusion(c) ELSE Refused(c)]
    /\ UNCHANGED <<there, cancelled>>

\* nextLink leads to another origin, or to what is not on the allow-list.
LinkLeaves(c) ==
    /\ stage[c] = "sent" /\ page[c] + 1 < there[c]
    /\ Fail(c, "not allowed")

\* A transport error, 429 or 5xx: the request sleeps in its slot, a few times.
retryForever(c) == TRUE
MayRetry(c) == attempt[c] < MaxRetries
Throttled(c) ==
    /\ stage[c] = "sent" /\ MayRetry(c)
    /\ stage' = [stage EXCEPT ![c] = "asleep"]
    /\ UNCHANGED <<attempt, page, result, there, taken, cancelled>>
WakeUp(c) ==
    /\ stage[c] = "asleep"
    /\ stage' = [stage EXCEPT ![c] = "token"]
    /\ attempt' = [attempt EXCEPT ![c] = attempt[c] + 1]
    /\ UNCHANGED <<page, result, there, taken, cancelled>>
SleepCut(c) == stage[c] = "asleep" /\ cancelled /\ Fail(c, "cancelled")

\* 401 and 403; any other status, an unreadable or undecodable answer, or the
\* last retry.
Rejected(c) == stage[c] = "sent" /\ Fail(c, "unavailable")
Failed(c) ==
    /\ stage[c] = "sent"
    /\ Fail(c, "failed")
SendCut(c) == stage[c] = "sent" /\ cancelled /\ Fail(c, "cancelled")

Cancel ==
    /\ ~cancelled /\ \E c \in Calls : stage[c] # "done"
    /\ cancelled' = TRUE
    /\ UNCHANGED <<stage, attempt, page, result, there, taken>>

Respond(c) == PageRead(c) \/ LinkLeaves(c) \/ Throttled(c) \/ Rejected(c) \/ Failed(c) \/ SendCut(c)
CallStep(c) ==
    NotOnAllowList(c) \/ Acquire(c) \/ NoSlot(c) \/ Token(c) \/ Mint(c) \/ NoToken(c) \/ Respond(c) \/ WakeUp(c) \/ SleepCut(c)

-----------------------------------------------------------------------------
\* The slots in use are those of the requests under way: none is leaked by an
\* error, a retry or the end of the context, and none is given back twice.
CallsTypeOK ==
    /\ stage \in [Calls -> Stages]
    /\ attempt \in [Calls -> 0 .. MaxRetries]
    /\ page \in [Calls -> 0 .. MaxPages]
    /\ result \in [Calls -> Listed \cup Errors \cup {Nothing}]
    /\ cancelled \in BOOLEAN
    /\ taken = Cardinality({c \in Calls : stage[c] \in Holding})
    /\ taken <= Slots
    /\ \A c \in Calls : stage[c] = "done" <=> result[c] # Nothing

\* A listing that is not said to be truncated holds every page there is.
WholeIsWhole == \A c \in Calls : result[c] = "whole" => page[c] = there[c]
=============================================================================
