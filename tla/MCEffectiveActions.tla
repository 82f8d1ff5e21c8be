------------------------- MODULE MCEffectiveActions -------------------------
(* Two roles whose definitions are read in parallel through one slot; three *)
(* pages in Azure, or one, of a listing that is read for two.               *)
EXTENDS EffectiveActions, TLC
MCCalls == {"roles", "denies", "r1", "r2"}
MCPagesThere == ("roles" :> {1, 3}) @@ ("denies" :> {1, 3}) @@ ("r1" :> {1}) @@ ("r2" :> {1})

\* The roles are interchangeable: of two states that only differ in their names
\* one is enough; so is one form of a deny assignment that is not there. One
\* long listing at a time: they are read one after the other.
MCInit ==
    /\ Init
    /\ there["roles"] = 1 \/ there["denies"] = 1
    /\ assignedAt["r1"] = "prefix"
    /\ assignedAt["r2"] = "prefix" => onPage["r1"] <= onPage["r2"]
    /\ deny = 0 => denyForm = "the caller"
MCSpec == MCInit /\ [][Next]_vars /\ Fairness
=============================================================================
