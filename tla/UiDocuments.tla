------------------------------ MODULE UiDocuments -----------------------------
(* The documents of the dashboard: how a JSON body is decoded and encoded  *)
(* (serde), what validate() accepts, and what a browser accepts when it    *)
(* reads a stored document back.                                           *)
(*                                                                         *)
(* A JSON object is a function from field names to values.  A text is      *)
(* [tag, chars, units, clean, padded]: its identity, its length in Unicode *)
(* characters and in UTF-16 units, whether it is free of NUL and within    *)
(* 4096 bytes, and whether it has white space at an end (of white space    *)
(* only, it has no characters).  A path is [tag, kind, clean] with kind    *)
(* "pointer", "misescaped" (a ~ that escapes nothing), "root", "key" ($key *)
(* and $value) or "other".  The entries of a JSON object read one by one   *)
(* are a sequence of pairs.                                                *)
EXTENDS Naturals, Sequences, FiniteSets, Functions

LOCAL INSTANCE SequencesExt

CONSTANTS
  Identifier, MutationId,    \* what valid_ui_id accepts
  None,          \* an absent optional field
  Null,          \* the JSON null
  Invalid,       \* the result of a failed decoding
  MaxSets, MaxSections, MaxPanels,
  MaxPaths,      \* metric paths of a chart or table
  MaxSourceIds, MaxColumns, MaxFilters, MaxGroups, MaxOptions,
  MaxValuePaths, MaxIdPaths, MaxColors, MaxRunColors,
  MaxRevision    \* the greatest integer a browser represents exactly

-------------------------------------------------------------------------------
(* Decoding: unknown fields and explicit nulls are refused, absent         *)
(* optional fields become None.                                            *)

Schema(required, optional) == [required |-> required, optional |-> optional]

Decode(schema, o) ==
  IF /\ schema.required \subseteq DOMAIN o
     /\ DOMAIN o \subseteq schema.required \cup schema.optional
     /\ Null \notin Range(o)
  THEN [f \in schema.required \cup schema.optional |-> IF f \in DOMAIN o THEN o[f] ELSE None]
  ELSE Invalid

Encode(v) == Restrict(v, {f \in DOMAIN v : v[f] # None})

(* A nested value decoded, or encoded, in place.                           *)
In(v, f, code(_)) ==
  IF v = Invalid \/ f \notin DOMAIN v THEN v
  ELSE IF v[f] = None THEN v
  ELSE LET d == code(v[f]) IN IF d = Invalid THEN Invalid ELSE [v EXCEPT ![f] = d]

Each(s, code(_)) ==
  LET d == [i \in DOMAIN s |-> code(s[i])]
  IN IF Invalid \in Range(d) THEN Invalid ELSE d

(* An object read entry by entry: a repeated key is refused, as is the     *)
(* entry beyond the limit.                                                 *)
DecodeMap(entries, limit) ==
  IF Len(entries) > limit \/ ~IsInjective([i \in DOMAIN entries |-> entries[i][1]]) THEN Invalid
  ELSE [k \in {e[1] : e \in Range(entries)} |->
          (CHOOSE e \in Range(entries) : e[1] = k)[2]]

EncodeMap(m) == LET k == SetToSeq(DOMAIN m) IN [i \in DOMAIN k |-> <<k[i], m[k[i]]>>]

PanelFields == Schema({"kind", "id", "sectionId", "size"},
  {"path", "paths", "presentation", "title", "sourceIds", "columns", "query", "view"})

ChartPresentation ==
  Schema({}, {"title", "style", "lineWidth", "points", "legend", "yMin", "yMax"})

ColumnPreference == Schema({"id"}, {"hidden", "width", "decimals"})

TableQueryPreference == Schema({}, {"search", "filters", "filterGroups", "sort"})

UiTableFilter == Schema({"path", "op", "value"}, {"enabled"})

UiFilterGroup == Schema({"id", "name", "path", "display", "options"}, {"selected"})

UiFilterOption == Schema({"label", "value"}, {})

TableSortPreference == Schema({"path", "direction"}, {})

BarView == Schema(
  {"type", "categoryPath", "valuePaths", "aggregation", "orientation", "layout", "order", "limit"},
  {"decimals", "unit"})

StatusGridView == Schema({"type", "idPaths", "statusPath", "density"},
  {"labelPath", "groupPath", "valuePath", "shadePath", "shadeScale", "sort", "columns",
   "cellSize", "gap", "colors"})

DecodeView(o) ==
  In(Decode(IF o["type"] = "bar" THEN BarView ELSE StatusGridView, o),
     "colors", LAMBDA s : DecodeMap(s, MaxColors))

DecodeQuery(o) ==
  LET group(g) == In(Decode(UiFilterGroup, g), "options",
                     LAMBDA s : Each(s, LAMBDA x : Decode(UiFilterOption, x)))
      filters(v) == In(v, "filters", LAMBDA s : Each(s, LAMBDA x : Decode(UiTableFilter, x)))
      groups(v) == In(v, "filterGroups", LAMBDA s : Each(s, group))
  IN In(groups(filters(Decode(TableQueryPreference, o))), "sort",
        LAMBDA x : Decode(TableSortPreference, x))

(* The fields of each kind's variant, those it cannot do without, and      *)
(* those deserialize refuses by name.                                      *)
Common == {"kind", "id", "sectionId", "size"}

Variant(kind) ==
  CASE kind = "chart" -> Common \cup {"path", "paths", "presentation"}
    [] kind = "metric-table" -> Common \cup {"paths", "title", "sourceIds", "columns", "query"}
    [] kind = "snapshot-table" ->
         Common \cup {"path", "title", "sourceIds", "columns", "query", "view"}

Needed(kind) == IF kind = "metric-table" THEN "paths" ELSE "path"

Foreign(kind) ==
  CASE kind = "chart" -> {"title", "sourceIds", "columns", "query", "view"}
    [] kind = "metric-table" -> {"path", "presentation", "view"}
    [] kind = "snapshot-table" -> {"paths", "presentation"}

(* PanelSpec::deserialize: the flat fields first, then the kind's own.     *)
DecodePanel(o) ==
  LET flat == Decode(PanelFields, o)
      nested ==
        In(In(In(In(flat, "presentation", LAMBDA x : Decode(ChartPresentation, x)),
                 "columns", LAMBDA s : Each(s, LAMBDA x : Decode(ColumnPreference, x))),
              "query", DecodeQuery),
           "view", DecodeView)
  IN IF nested = Invalid THEN Invalid
     ELSE IF \/ nested.kind \notin {"chart", "metric-table", "snapshot-table"}
             \/ \E f \in Foreign(nested.kind) : nested[f] # None
             \/ nested[Needed(nested.kind)] = None
          THEN Invalid
          ELSE Restrict(nested, Variant(nested.kind))

EncodeQuery(q) ==
  Encode(In(In(In(q, "filters", LAMBDA s : Each(s, Encode)),
               "filterGroups", LAMBDA s : Each(s, Encode)),
            "sort", Encode))

EncodePanel(p) ==
  Encode(In(In(In(In(p, "presentation", Encode),
                  "columns", LAMBDA s : Each(s, Encode)),
               "query", EncodeQuery),
            "view", LAMBDA v : Encode(In(v, "colors", EncodeMap))))

DecodeSet(o) == In(o, "panels", LAMBDA s : Each(s, DecodePanel))

EncodeSet(s) == [s EXCEPT !.panels = Each(s.panels, EncodePanel)]

-------------------------------------------------------------------------------
(* validate(): what the server accepts.                                    *)

Text(t, limit) == t.clean /\ t.chars <= limit

Blank(t) == t.chars = 0

Path(p, root) ==
  p.clean /\ (p.kind \in {"pointer", "misescaped"} \/ (root /\ p.kind = "root"))

Distinct(s) == IsInjective(s)

Paths(s) == Len(s) \in 1 .. MaxPaths /\ (\A i \in DOMAIN s : Path(s[i], FALSE)) /\ Distinct(s)

Absent(v, f, ok(_)) == v[f] = None \/ ok(v[f])

ValidPresentation(d) ==
  /\ Absent(d, "title", LAMBDA t : ~Blank(t) /\ Text(t, 120))
  /\ Absent(d, "lineWidth", LAMBDA w : w \in 5 .. 60)          \* in tenths
  /\ Absent(d, "yMin", LAMBDA y : y # "inf") /\ Absent(d, "yMax", LAMBDA y : y # "inf")
  /\ d.yMin # None /\ d.yMax # None => d.yMin < d.yMax

ValidColumn(c) ==
  /\ c.id.clean
  /\ Absent(c, "width", LAMBDA w : w \in 70 .. 800)
  /\ Absent(c, "decimals", LAMBDA n : n \in 0 .. 20)

ValidGroup(g) ==
  /\ g.id \in Identifier
  /\ ~Blank(g.name) /\ Text(g.name, 120) /\ g.path.clean
  /\ Len(g.options) \in 1 .. MaxOptions
  /\ \A i \in DOMAIN g.options :
       /\ ~Blank(g.options[i].label) /\ Text(g.options[i].label, 120)
       /\ ~Blank(g.options[i].value) /\ g.options[i].value.clean
  /\ Distinct([i \in DOMAIN g.options |-> g.options[i].value])
  /\ Absent(g, "selected", LAMBDA v : \E i \in DOMAIN g.options : g.options[i].value = v)

ValidQuery(q) ==
  LET length(f) == IF q[f] = None THEN 0 ELSE Len(q[f])
  IN /\ Absent(q, "search", LAMBDA t : t.clean)
     /\ Absent(q, "sort", LAMBDA s : s.path.clean)
     /\ Absent(q, "filters", LAMBDA s :
          Len(s) <= MaxFilters /\ \A i \in DOMAIN s : s[i].path.clean /\ s[i].value.clean)
     /\ Absent(q, "filterGroups", LAMBDA s :
          /\ Len(s) <= MaxGroups /\ length("filters") + Len(s) <= MaxFilters
          /\ \A i \in DOMAIN s : ValidGroup(s[i])
          /\ Distinct([i \in DOMAIN s |-> s[i].id]))

(* validate_table: title, Sources, columns and query of either table.      *)
ValidTable(p) ==
  /\ Absent(p, "title", LAMBDA t : Text(t, 120))
  /\ Absent(p, "sourceIds", LAMBDA s :
       Len(s) <= MaxSourceIds /\ Range(s) \subseteq Identifier /\ Distinct(s))
  /\ Absent(p, "columns", LAMBDA s :
       /\ Len(s) <= MaxColumns /\ Distinct([i \in DOMAIN s |-> s[i].id])
       /\ \A i \in DOMAIN s : ValidColumn(s[i]))
  /\ Absent(p, "query", ValidQuery)

(* validate_snapshot_field: a pointer, the root, $key or $value.           *)
Field(p) == p.clean /\ p.kind \in {"pointer", "root", "key"}

Fields(s, least, most) ==
  Len(s) \in least .. most /\ Distinct(s) /\ \A i \in DOMAIN s : Field(s[i])

Color(c) == c = "#RRGGBB"

ValidColors(m) == \A k \in DOMAIN m : k.clean /\ k.chars <= 256 /\ Color(m[k])

ValidBar(v) ==
  /\ Field(v.categoryPath)
  /\ IF v.aggregation = "count" THEN Len(v.valuePaths) = 0
                                ELSE Fields(v.valuePaths, 1, MaxValuePaths)
  /\ v.limit \in 1 .. 50
  /\ Absent(v, "decimals", LAMBDA n : n <= 20)
  /\ Absent(v, "unit", LAMBDA t : t.clean /\ t.chars <= 40)

ValidStatusGrid(v) ==
  /\ Fields(v.idPaths, 1, MaxIdPaths) /\ Field(v.statusPath)
  /\ \A f \in {"labelPath", "groupPath", "valuePath", "shadePath"} : Absent(v, f, Field)
  /\ Absent(v, "sort", LAMBDA s : Field(s.path))
  /\ Absent(v, "columns", LAMBDA n : n \in 1 .. 64)
  /\ Absent(v, "cellSize", LAMBDA n : n \in 12 .. 40)
  /\ Absent(v, "gap", LAMBDA n : n \in 2 .. 12)
  /\ Absent(v, "colors", LAMBDA m : Cardinality(DOMAIN m) <= MaxColors /\ ValidColors(m))

ValidView(v) == IF v["type"] = "bar" THEN ValidBar(v) ELSE ValidStatusGrid(v)

ValidPanel(p) ==
  CASE p.kind = "chart" ->
         /\ Path(p.path, FALSE)
         /\ Absent(p, "paths", LAMBDA s : Paths(s) /\ p.path \in Range(s))
         /\ Absent(p, "presentation", ValidPresentation)
    [] p.kind = "metric-table" -> Paths(p.paths) /\ ValidTable(p)
    [] p.kind = "snapshot-table" ->
         Path(p.path, TRUE) /\ ValidTable(p) /\ Absent(p, "view", ValidView)

ValidSet(set) ==
  /\ {set.id, set.experimentId} \subseteq Identifier
  /\ ~Blank(set.name) /\ ~set.name.padded /\ Text(set.name, 80)
  /\ Len(set.sections) \in 1 .. MaxSections /\ Len(set.panels) <= MaxPanels
  /\ \A i \in DOMAIN set.sections :
       set.sections[i].id \in Identifier /\ Text(set.sections[i].name, 100)
  /\ Distinct([i \in DOMAIN set.sections |-> set.sections[i].id])
  /\ Distinct([i \in DOMAIN set.panels |-> set.panels[i].id])
  /\ \A i \in DOMAIN set.panels :
       /\ set.panels[i].id \in Identifier
       /\ \E j \in DOMAIN set.sections : set.sections[j].id = set.panels[i].sectionId
       /\ ValidPanel(set.panels[i])

(* SaveWorkspaces::validate.                                               *)
ValidWorkspaces(input) ==
  /\ input.revision <= MaxRevision /\ input.mutation \in MutationId
  /\ Len(input.sets) <= MaxSets
  /\ Distinct([i \in DOMAIN input.sets |-> input.sets[i].id])
  /\ Distinct([i \in DOMAIN input.sets |-> <<input.sets[i].experimentId, input.sets[i].name>>])
  /\ \A i \in DOMAIN input.sets : ValidSet(input.sets[i])

(* SaveBrowserPreferences::validate.                                       *)
ValidBrowser(input) ==
  /\ input.revision <= MaxRevision /\ input.mutation \in MutationId
  /\ input.width \in 220 .. 520
  /\ Cardinality(DOMAIN input.selected) <= MaxSets
  /\ DOMAIN input.selected \cup Range(input.selected) \subseteq Identifier
  /\ Cardinality(DOMAIN input.runColors) <= MaxRunColors
  /\ DOMAIN input.runColors \subseteq Identifier
  /\ \A r \in DOMAIN input.runColors : Color(input.runColors[r])

(* PanelSpec::source_ids: charts name no Source.                           *)
SourceIds(p) ==
  IF p.kind = "chart" \/ p.sourceIds = None THEN {} ELSE Range(p.sourceIds)

-------------------------------------------------------------------------------
(* What a browser accepts of a stored document (validWorkspaceDocument):   *)
(* it measures names and titles in UTF-16 units.                           *)

Present(o, f, ok(_)) == f \in DOMAIN o => ok(o[f])

BrowserField(p) == p.clean /\ p.kind \in {"pointer", "root", "key"}

Starts(p) == p.kind \in {"pointer", "misescaped"}

BrowserPaths(s) ==
  Len(s) \in 1 .. MaxPaths /\ (\A i \in DOMAIN s : Starts(s[i])) /\ Distinct(s)

(* validChartSpec.                                                         *)
BrowserChart(o) ==
  /\ Starts(o.path)
  /\ Present(o, "paths", LAMBDA s : BrowserPaths(s) /\ o.path \in Range(s))
  /\ Present(o, "presentation", LAMBDA d :
       /\ DOMAIN d \subseteq ChartPresentation.optional
       /\ Present(d, "title", LAMBDA t : ~Blank(t) /\ t.units <= 120)
       /\ Present(d, "lineWidth", LAMBDA w : w \in 5 .. 60)
       /\ Present(d, "yMin", LAMBDA y : y # "inf") /\ Present(d, "yMax", LAMBDA y : y # "inf")
       /\ {"yMin", "yMax"} \subseteq DOMAIN d => d.yMin < d.yMax)

(* validSnapshotView.                                                      *)
BrowserView(v) ==
  \/ /\ v["type"] = "bar" /\ DOMAIN v \subseteq BarView.required \cup BarView.optional
     /\ BrowserField(v.categoryPath) /\ Distinct(v.valuePaths)
     /\ \A i \in DOMAIN v.valuePaths : BrowserField(v.valuePaths[i])
     /\ IF v.aggregation = "count" THEN v.valuePaths = <<>>
                                   ELSE Len(v.valuePaths) \in 1 .. MaxValuePaths
     /\ v.limit \in 1 .. 50
     /\ Present(v, "decimals", LAMBDA n : n \in 0 .. 20)
     /\ Present(v, "unit", LAMBDA t : t.clean /\ t.chars <= 40)
  \/ /\ v["type"] = "status-grid"
     /\ DOMAIN v \subseteq StatusGridView.required \cup StatusGridView.optional
     /\ BrowserField(v.statusPath) /\ Len(v.idPaths) \in 1 .. MaxIdPaths /\ Distinct(v.idPaths)
     /\ \A i \in DOMAIN v.idPaths : BrowserField(v.idPaths[i])
     /\ \A f \in {"labelPath", "groupPath", "valuePath", "shadePath"} : Present(v, f, BrowserField)
     /\ Present(v, "sort", LAMBDA s : BrowserField(s.path))
     /\ Present(v, "columns", LAMBDA n : n \in 1 .. 64)
     /\ Present(v, "cellSize", LAMBDA n : n \in 12 .. 40)
     /\ Present(v, "gap", LAMBDA n : n \in 2 .. 12)
     /\ Present(v, "colors", LAMBDA s :
          Len(s) <= MaxColors /\ \A i \in DOMAIN s : s[i][1].clean /\ Color(s[i][2]))

(* validFilterGroups and the limits it shares with the filters.            *)
BrowserQuery(q) ==
  LET filters == IF "filters" \in DOMAIN q THEN Len(q.filters) ELSE 0
  IN /\ filters <= MaxFilters
     /\ Present(q, "filterGroups", LAMBDA s :
          /\ Len(s) <= MaxGroups /\ filters + Len(s) <= MaxFilters
          /\ Distinct([i \in DOMAIN s |-> s[i].id])
          /\ \A i \in DOMAIN s :
               /\ s[i].id \in Identifier /\ Text(s[i].name, 120) /\ ~Blank(s[i].name)
               /\ Len(s[i].options) \in 1 .. MaxOptions
               /\ Distinct([j \in DOMAIN s[i].options |-> s[i].options[j].value])
               /\ Present(s[i], "selected", LAMBDA x :
                    \E j \in DOMAIN s[i].options : s[i].options[j].value = x))

(* validPanel.                                                             *)
BrowserPanel(o) ==
  /\ Present(o, "view", LAMBDA v : o.kind = "snapshot-table" /\ BrowserView(v))
  /\ IF o.kind = "chart" THEN BrowserChart(o)
     ELSE /\ Present(o, "title", LAMBDA t : t.units <= 120)
          /\ Present(o, "sourceIds", LAMBDA s : Len(s) <= MaxSourceIds /\ Distinct(s))
          /\ o.kind = "metric-table" => BrowserPaths(o.paths)
          /\ o.kind = "snapshot-table" => o.path.kind = "root" \/ Starts(o.path)
          /\ Present(o, "query", BrowserQuery)
          /\ Present(o, "columns", LAMBDA s :
               /\ Len(s) <= MaxColumns /\ Distinct([i \in DOMAIN s |-> s[i].id])
               /\ \A i \in DOMAIN s :
                    /\ Present(s[i], "decimals", LAMBDA n : n \in 0 .. 20)
                    /\ Present(s[i], "width", LAMBDA w : w \in 70 .. 800))

(* validSet, validLayout.                                                  *)
BrowserSet(set) ==
  /\ ~Blank(set.name) /\ set.name.units <= 80
  /\ Len(set.sections) \in 1 .. MaxSections /\ Len(set.panels) <= MaxPanels
  /\ \A i \in DOMAIN set.sections : set.sections[i].name.units <= 100
  /\ Distinct([i \in DOMAIN set.sections |-> set.sections[i].id])
  /\ Distinct([i \in DOMAIN set.panels |-> set.panels[i].id])
  /\ \A i \in DOMAIN set.panels :
       /\ BrowserPanel(set.panels[i])
       /\ \E j \in DOMAIN set.sections : set.sections[j].id = set.panels[i].sectionId

===============================================================================
