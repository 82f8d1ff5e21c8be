------------------------------ MODULE EnvRules ------------------------------
(***************************************************************************)
(* The environment rules FND-ENV-001 .. 004 (internal/rules/env).  They    *)
(* look at two environments at a time; what is open here is what the file  *)
(* of an environment would say if it could be read.                        *)
(***************************************************************************)
EXTENDS Ruling

\* The values of an environment come from azd's own file or, where azd knows
\* none, from a parameter file named after it, which only ever gives notes.
Readable(f) ==
    IF f.origin = "azd" THEN f.file = "read"
    ELSE f.file = "read" /\ f.form = "json"
OfPair(f, marks) ==
    CASE f.environments = "one" -> {"exempt"}
      [] OTHER -> IF Readable(f) THEN marks ELSE {"noted"}

(* FND-ENV-001: environments that share a subscription and resource group. *)
ENV001(f) == OfPair(f,
    IF f.origin # "azd" THEN {"noted"} ELSE
    (CASE f.group = "unset" -> {"noted"} [] OTHER -> Mark(f.group = "shared", "bad"))
    \cup CASE f.literal = "project" -> {"bad"}
           [] f.literal = "service" -> {"noted"}
           [] OTHER -> {})

(* FND-ENV-002: a value that names a resource, identical in both.  Whether *)
(* it was copied cannot be told while both files claim the same name.      *)
ENV002(f) == OfPair(f,
    CASE f.names # "differ" -> {"noted"}
      [] f.names = "differ" /\ f.origin # "azd" -> Mark(f.shared = "identifier", "noted")
      [] OTHER -> CASE f.shared = "identifier" -> {"bad"}
                    [] f.shared = "name" -> {"noted"}
                    [] OTHER -> {})

(* FND-ENV-003: production and another tier on one target.  A tier comes   *)
(* from the policy, or, which is told, from the name.                      *)
Tier(policy, name) ==
    CASE policy # Absent -> policy
      [] policy = Absent /\ name \in {"prod", "other"} -> name
      [] OTHER -> "none"
ENV003(f) == OfPair(f,
    LET one == Tier(f.policy, f.name)
        two == f.second
    IN Mark("none" \in {one, two} \/ "prod" \notin {one, two} \/ "other" \notin {one, two}, "noted") \cup
       IF {one, two} # {"prod", "other"} THEN {}
       ELSE CASE f.targets = "none" -> {"noted"}
              [] f.targets = "shared" /\ f.origin # "azd" -> {"noted"}
              [] f.targets = "shared" /\ f.origin = "azd" -> {"bad"} \cup Mark(f.policy = Absent, "noted")
              [] OTHER -> {})

(* FND-ENV-004: one summary of the keys in which two azd files differ.     *)
ENV004(f) == OfPair(f, IF f.origin # "azd" THEN {"noted"} ELSE Mark(f.keys = "differ", "mild"))

EnvMarks(rule, f) ==
    CASE rule = "ENV001" -> ENV001(f)
      [] rule = "ENV002" -> ENV002(f)
      [] rule = "ENV003" -> ENV003(f)
      [] rule = "ENV004" -> ENV004(f)

\* A slip: the result carries the findings alone.
findingsAlone(rule, marks) ==
    IF Violates(marks) THEN Failed({}) ELSE IF "noted" \in marks THEN Skipped ELSE Clean({})

\* rule.Evaluate: the notes ride next to the findings; alone they are a skip.
EnvResult(rule, marks) ==
    CASE "exempt" \in marks -> Skipped
      [] "exempt" \notin marks /\ Violates(marks) -> Failed(marks \cap {"noted"})
      [] OTHER -> IF "noted" \in marks THEN Skipped ELSE Clean({})

-----------------------------------------------------------------------------
EnvShapes ==
    [ENV001 |-> {[environments |-> {"one", "two"}, origin |-> {"azd", "parameter-file"}, form |-> {"json", "bicep"},
                  file |-> {"read"}, group |-> {"unset", "own", "shared"}, literal |-> {"none", "project", "service"}]},
     ENV002 |-> {[environments |-> {"one", "two"}, origin |-> {"azd", "parameter-file"}, form |-> {"json", "bicep"},
                  file |-> {"read"}, names |-> {"same", "differ"}, shared |-> {"identifier", "name", "nothing"}]},
     ENV003 |-> {[environments |-> {"one", "two"}, origin |-> {"azd", "parameter-file"}, form |-> {"json", "bicep"},
                  file |-> {"read"}, policy |-> {Absent, "prod", "other"}, name |-> {"prod", "other", "unclear"},
                  second |-> {"prod", "other", "none"}, targets |-> {"none", "apart", "shared"}]},
     ENV004 |-> {[environments |-> {"one", "two"}, origin |-> {"azd", "parameter-file"}, form |-> {"json", "bicep"},
                  file |-> {"read"}, keys |-> {"same", "differ"}]}]

EnvStated == {"environments", "origin", "form", "literal", "policy", "name", "second", "group", "names",
              "shared", "targets", "keys"}

\* What holds for the whole template, whichever resource the rule looks at.
EnvWide == {"environments", "origin"}

=============================================================================
