------------------------------ MODULE IqRules ------------------------------
(***************************************************************************)
(* The knowledge rules FND-IQ-001 .. 012 (internal/rules/iq).  Most of     *)
(* their facts come from the metadata of the Search data plane, which is   *)
(* read only on request (plane = Open: not read) and can fail ("broken").  *)
(***************************************************************************)
EXTENDS Ruling

\* liveSnapshot: nothing is evaluated without the data plane.
OnPlane(f, marks) == IF f.plane = "read" THEN marks ELSE {"missing"}

\* knownVersion: an object read with an API version nobody verified is noted.
Known(f, marks) == IF f.version = "known" THEN marks ELSE {"noted"}

\* A knowledge source and the index behind it.
Backed(f, marks) ==
    IF f.index = Absent THEN {} ELSE Known(f, IF f.index = Open THEN {"skip"} ELSE {"ok"} \cup marks)

(* FND-IQ-001: the fields a source filters by.  filterFieldsFromBase gives *)
(* up on a construct it does not follow.                                   *)
IQ001(f) == OnPlane(f, Backed(f,
    Mark(f.filter = "not-followed", "noted") \cup Mark(f.filter = "unfilterable-field" \/ f.field = "unfilterable", "bad")))

(* FND-IQ-002: key, content field, semantic configuration, vector fields.  *)
IQ002(f) == OnPlane(f, Backed(f, Mark("unfit" \in {f.content, f.configuration, f.vector}, "bad")))

(* FND-IQ-003: dimensions of a vector field, and its vector search profile.*)
ModelRange == {"in-the-range", "outside-the-range", "no-range"}
IQ003(f) == OnPlane(f, {"ok"} \cup Known(f,
    CASE f.vector = "no" -> {}
      [] f.profile = "missing" -> {"bad"}
      [] OTHER -> Mark(\/ f.dimensions = "unfit" \/ f.profile = "dangling"
                       \/ f.vectorizer = "azure" /\ f.model = "outside-the-range", "bad")))

(* FND-IQ-004: dimensions against the model, the skill and the deployment. *)
IQ004(f) == OnPlane(f,
    IF f.index # "there" THEN {}
    ELSE {"ok"} \cup Known(f,
        CASE f.profile = "missing" -> {}
          [] f.profile # "missing" /\ f.vectorizer # "azure" -> {"skip"}
          [] OTHER -> Mark(f.model = "outside-the-range" \/ f.skill = "differs" \/ f.deployment = "differs", "bad")))

(* FND-IQ-005: what a knowledge base asks of its Search service.  A region *)
(* outside the documented ones is only noted: none is known to be refused. *)
SourceLimit(f) ==
    CASE f.sources = "over-ten" \/ (f.sku = "free" /\ f.sources = "over-five") -> {"bad"}
      [] f.sku = "basic" /\ f.sources = "over-five" -> {"noted"}
      [] OTHER -> {}
Reasoning(f) ==
    CASE f.reasoning = "auto" -> Mark(f.models # "some" \/ f.version # "newest", "noted")
      [] f.reasoning = "minimal" -> Mark(f.output # "extractive" \/ f.models = "none-for-the-web", "bad")
      [] f.reasoning = "medium" -> IF f.service = "elsewhere" THEN {"skip"} ELSE Mark(f.region # "documented", "noted")
      [] OTHER -> {}
IQ005(f) == OnPlane(f,
    CASE f.version = Absent -> {"skip"}
      [] f.version = "unknown" -> {"noted"}
      [] OTHER -> {"ok"} \cup Mark(f.models = "none-for-the-web", "bad") \cup Reasoning(f)
                  \cup Mark(f.version = "oldest" /\ f.models = "some", "noted")
                  \cup (IF f.service = "elsewhere" THEN {"skip"}
                        ELSE Mark(f.models = "some" /\ f.sku = "free", "bad") \cup SourceLimit(f)))

(* FND-IQ-006: page length and overlap of a text split skill.              *)
IQ006(f) == OnPlane(f, Known(f, IF f.skill = "other" THEN {} ELSE {"ok"} \cup Mark(f.pages = "unfit", "bad")))

(* FND-IQ-007: kinds of sources and planning models an API version has.    *)
PlanningModel(f) ==
    CASE f.model = "none" -> {"skip"}
      [] f.model = "not-azure" -> {"bad"}
      [] f.model # "not-azure" /\ f.version # "known" -> {"noted"}
      [] OTHER -> {"ok"} \cup Mark(f.model = "unlisted", "noted")
                         \cup Mark(f.model = "legacy" /\ f.reasoning # "minimal" /\ f.filters = "stored", "bad")
IQ007(f) == OnPlane(f,
    IF f.kind = "source" THEN Known(f, {"ok"} \cup Mark(f.source = "unsupported", "bad")) ELSE PlanningModel(f))

(* FND-IQ-008: managed identity on connections, sources and models.  The   *)
(* connections are in azure.yaml; yet a failed probe skips the whole rule. *)
ModelKey(f) == CASE f.key = "set" -> {"bad"} [] f.key = "identity" -> {} [] OTHER -> {"noted"}
IQ008Source(f) ==
    {"ok"} \cup CASE f.connection = "secret" -> {"bad"}
                  [] f.connection = "redacted" -> {"noted"}
                  [] f.connection = "resource-id" /\ f.service = "here" /\ f.identity \in {Absent, "none"} -> {"bad"}
                  [] f.connection = "resource-id" /\ (f.service = "elsewhere" \/ f.identity = Open) -> {"noted"}
                  [] OTHER -> {}
IQ008Connection(f) ==
    CASE f.target = Open -> {"noted"}
      [] f.target = "other" -> {}
      [] OTHER -> {"ok"} \cup Mark(f.auth # "project-identity", "bad")
IQ008(f) ==
    CASE f.plane = "broken" -> {"missing"}
      [] f.plane # "broken" /\ f.kind = "connection" -> IQ008Connection(f) \cup Mark(f.plane = Open, "missing")
      [] OTHER -> OnPlane(f, Known(f, IF f.kind = "source" THEN IQ008Source(f) ELSE {"ok"} \cup ModelKey(f)))

(* FND-IQ-009: permissions a source ingests; the headers an agent forwards *)
(* are outside the repository, so the rule is never clean.                 *)
IQ009(f) == IF f.access = "not-required" THEN {"skip"} ELSE OnPlane(f,
    CASE f.source = "unindexed" -> {}
      [] f.source = "indexed" /\ f.version \in {"unknown", "oldest"} -> {"noted"}
      [] f.source = "indexed" /\ f.version \notin {"unknown", "oldest"} /\ f.options = "not-returned" -> {"noted"}
      [] OTHER -> {"noted"} \cup Mark(f.options \in {"none", "undocumented"} \/ f.assetStore = "yes", "bad"))

(* FND-IQ-010: hierarchical namespace behind an ADLS Gen2 source.          *)
IQ010(f) == OnPlane(f, Known(f,
    CASE f.account = "not-in-the-template" \/ f.namespace \in {Open, Absent} -> {"skip"}
      [] OTHER -> {"ok"} \cup Mark(f.namespace # "hierarchical", "bad")))

(* FND-IQ-011: interval and start of an ingestion schedule.                *)
IQ011(f) == OnPlane(f, Known(f,
    {"ok"} \cup Mark(f.interval \in {Absent, "not-a-duration"}, "noted")
           \cup Mark(f.interval = "outside" \/ f.start = "not-UTC", "bad")))

(* FND-IQ-012: tier and semantic ranker of a Search service.               *)
Ranker(f) ==
    CASE f.used = "no" -> {}
      [] f.used = "yes" /\ f.semantic = Absent -> {"noted"}
      [] f.used = "yes" /\ f.semantic = "disabled" -> {"ok", IF f.version = "old" THEN "bad" ELSE "noted"}
      [] OTHER -> {"ok"}
IQ012(f) ==
    CASE f.plane = "broken" -> {"missing"}
      [] f.plane # "broken" /\ f.version = "unknown" -> {"noted"}
      [] OTHER -> Mark(f.semantic = "standard" /\ f.sku = "free", "bad")
                  \cup (IF f.plane = Open THEN {"missing"} ELSE Ranker(f))

IqMarks(rule, f) ==
    CASE rule = "IQ001" -> IQ001(f)
      [] rule = "IQ002" -> IQ002(f)
      [] rule = "IQ003" -> IQ003(f)
      [] rule = "IQ004" -> IQ004(f)
      [] rule = "IQ005" -> IQ005(f)
      [] rule = "IQ006" -> IQ006(f)
      [] rule = "IQ007" -> IQ007(f)
      [] rule = "IQ008" -> IQ008(f)
      [] rule = "IQ009" -> IQ009(f)
      [] rule = "IQ010" -> IQ010(f)
      [] rule = "IQ011" -> IQ011(f)
      [] rule = "IQ012" -> IQ012(f)

\* acc.result: findings stand alone, then any doubt is a skip.
IqResult(rule, marks) ==
    CASE Violates(marks) -> Failed({})
      [] ~Violates(marks) /\ marks = {"ok"} -> Clean({})
      [] OTHER -> Skipped

-----------------------------------------------------------------------------
\* The values each rule tells apart, per kind of object it looks at.
Plane == {"read", "broken"}
IqVersion == {"known", "unknown"}
ODataFilter == {"filterable-field", "unfilterable-field", "not-followed"}
IntervalKind == {Absent, "inside", "outside", "not-a-duration"}
Fitness == {"fit", "unfit"}
IqShapes ==
    [IQ001 |-> {[plane |-> Plane, version |-> IqVersion, index |-> {Absent, "there"}, filter |-> ODataFilter,
                 field |-> {"filterable", "unfilterable"}]},
     IQ002 |-> {[plane |-> Plane, version |-> IqVersion, index |-> {Absent, "there"}, content |-> Fitness,
                 configuration |-> Fitness, vector |-> Fitness]},
     IQ003 |-> {[plane |-> Plane, version |-> IqVersion, vector |-> {"yes", "no"}, dimensions |-> Fitness,
                 profile |-> {"whole", "dangling", "missing"}, vectorizer |-> {"azure", "other"}, model |-> ModelRange]},
     IQ004 |-> {[plane |-> Plane, version |-> IqVersion, index |-> {"there"}, profile |-> {"whole", "missing"},
                 vectorizer |-> {"azure", "other"}, model |-> ModelRange, skill |-> {"agrees", "differs"},
                 deployment |-> {"agrees", "differs"}]},
     IQ005 |-> {[plane |-> Plane, version |-> {Absent, "unknown", "oldest", "newest"}, service |-> {"here", "elsewhere"},
                 sku |-> {"free", "basic", "standard"}, region |-> {"documented"},
                 models |-> {"some", "none", "none-for-the-web"}, reasoning |-> {"auto", "minimal", "medium", "low"},
                 output |-> {"extractive", "another"}, sources |-> {"few", "over-five", "over-ten"}]},
     IQ006 |-> {[plane |-> Plane, version |-> IqVersion, skill |-> {"split", "other"}, pages |-> Fitness]},
     IQ007 |-> {[kind |-> {"source"}, plane |-> Plane, version |-> IqVersion, source |-> {"supported", "unsupported"}],
                [kind |-> {"base"}, plane |-> Plane, version |-> IqVersion,
                 model |-> {"none", "not-azure", "listed", "unlisted", "legacy"},
                 reasoning |-> {"minimal", "another"}, filters |-> {"stored", "none"}]},
     IQ008 |-> {[kind |-> {"connection"}, plane |-> Plane, target |-> {"knowledge-base", "other"},
                 auth |-> {"project-identity", "another"}],
                [kind |-> {"source"}, plane |-> Plane, version |-> IqVersion,
                 connection |-> {"resource-id", "secret", "redacted"}, service |-> {"here", "elsewhere"},
                 identity |-> {"some", "none", Absent}],
                [kind |-> {"model"}, plane |-> Plane, version |-> IqVersion, key |-> {"set", "identity", "not-returned"}]},
     IQ009 |-> {[access |-> {"required", "not-required"}, plane |-> Plane, version |-> {"unknown", "oldest", "newest", "known"},
                 source |-> {"indexed", "unindexed"}, options |-> {"documented", "undocumented", "none", "not-returned"},
                 assetStore |-> {"yes", "no"}]},
     IQ010 |-> {[plane |-> Plane, version |-> IqVersion, account |-> {"here", "not-in-the-template"},
                 namespace |-> {"hierarchical", "flat", Absent}]},
     IQ011 |-> {[plane |-> Plane, version |-> IqVersion, interval |-> IntervalKind, start |-> {Absent, "UTC", "not-UTC"}]},
     IQ012 |-> {[plane |-> Plane, version |-> {"old", "new", "unknown"}, sku |-> {"free", "paid"},
                 semantic |-> {Absent, "standard", "disabled"}, used |-> {"yes", "no"}]}]

IqStated == {"kind", "version", "filter", "field", "content", "configuration", "vector", "dimensions", "profile",
             "vectorizer", "model", "skill", "deployment", "service", "models", "reasoning", "output", "sources",
             "pages", "source", "filters", "auth", "connection", "key", "access", "options", "assetStore", "account",
             "interval", "start", "used"}

\* What holds for the whole template, whichever resource the rule looks at.
IqWide == {"plane", "access"}

=============================================================================
