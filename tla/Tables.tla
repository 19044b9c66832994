-------------------------------- MODULE Tables --------------------------------
(***************************************************************************)
(* The table reads of the snapshot store: rows, records and aggregates of  *)
(* a collection that the latest snapshots of several Sources hold, read a  *)
(* page at a time while newer snapshots arrive.                            *)
(*                                                                         *)
(* A cell or a row is a JSON value: a record with its kind.  A number is   *)
(* its token, since the code orders tokens and never rounds: a sign, the   *)
(* digits, how many of them stand before the point, and an exponent, which *)
(* is an Option.  Radix is 10 in JSON.                                     *)
(* A Source stands for its Run too, numbered in the order of table_sources.*)
(***************************************************************************)
EXTENDS Integers, Sequences, FiniteSets, SequencesExt

CONSTANTS
  Radix,
  MaxInt,       \* i64::MAX
  MaxFinite,    \* the largest magnitude of a finite f64
  Alphabet,     \* the texts there are, in their order
  Holds,        \* Holds[text]: the texts it contains, in lower case
  Written(_),   \* the texts a null, a boolean or a number contains as it is written
  MaxColumns    \* MAX_COLUMNS

ASSUME TablesAssumption == Radix \in Nat \ {0, 1} /\ MaxInt \in Nat

VARIABLES
  stored,   \* the snapshots of each Source, oldest first: their collections
  view      \* a client that reads page after page

tableVars == <<stored, view>>

-------------------------------------------------------------------------------
(* NumericKey: the exact order of decimal tokens.                          *)

Zeros(digits) == {k \in 0 .. Len(digits) : \A i \in 1 .. k : digits[i] = 0}

LeadingZeros(digits) == Max(Zeros(digits))

Trimmed(digits) == SubSeq(digits, LeadingZeros(digits) + 1, Len(digits))

ValueOf(digits) == FoldLeft(LAMBDA n, d : n * Radix + d, 0, digits)

Signed(negative, n) == IF negative THEN -n ELSE n

InI64(n) == n \in (-MaxInt - 1) .. MaxInt

InU64(n) == n \in 0 .. 2 * MaxInt + 1

Numeral[n \in Nat] == IF n < Radix THEN <<n>> ELSE Numeral[n \div Radix] \o <<n % Radix>>

(* A carry runs through the digits from the right, as in longhand.         *)
Carried(digits, carry, adding) ==
  LET Column(d, sum) ==
        LET part == sum.carry % Radix
            over == IF adding THEN d + part >= Radix ELSE d < part IN
        [carry |-> (sum.carry \div Radix) + (IF over THEN 1 ELSE 0),
         out |-> <<(IF adding THEN d + part ELSE d - part) % Radix>> \o sum.out]
  IN FoldRight(Column, digits, [carry |-> carry, out |-> <<>>])

(* An exponent that fits is Small; a longer one keeps its digits.          *)
Small(n) == [small |-> {n}, negative |-> FALSE, digits |-> <<>>]

Digits(sum) == IF sum.carry > 0 THEN Numeral[sum.carry] \o sum.out ELSE Trimmed(sum.out)

FromDigits(negative, digits) ==
  LET n == Signed(negative, ValueOf(digits)) IN
  IF InI64(n) THEN Small(n) ELSE [small |-> {}, negative |-> negative, digits |-> digits]

Shifted(exponent, offset) ==
  LET e == Signed(exponent.negative, ValueOf(exponent.digits))
      adjustment == Signed(exponent.negative, offset)
      size == IF adjustment >= 0 THEN adjustment ELSE -adjustment IN
  IF InI64(e) /\ InI64(e + offset) THEN Small(e + offset)
  ELSE FromDigits(exponent.negative, Digits(Carried(Trimmed(exponent.digits), size, adjustment >= 0)))

Sign(n) == IF n < 0 THEN -1 ELSE IF n > 0 THEN 1 ELSE 0

(* Sequences compared as a loop over both does, the shorter one padded.    *)
Lexical(a, b, pad) ==
  LET n == IF Len(a) > Len(b) THEN Len(a) ELSE Len(b)
      At(s, k) == IF k <= Len(s) THEN s[k] ELSE pad
      differ == {k \in 1 .. n : At(a, k) # At(b, k)} IN
  IF differ = {} THEN 0 ELSE Sign(At(a, Min(differ)) - At(b, Min(differ)))

The(S) == CHOOSE x \in S : TRUE

CompareExponents(a, b) ==
  CASE a.small # {} /\ b.small # {} -> Sign(The(a.small) - The(b.small))
    [] a.small = {} /\ b.small # {} -> IF a.negative THEN -1 ELSE 1
    [] a.small # {} /\ b.small = {} -> IF b.negative THEN 1 ELSE -1
    [] OTHER ->
         IF a.negative # b.negative THEN (IF a.negative THEN -1 ELSE 1)
         ELSE Signed(a.negative, IF Len(a.digits) # Len(b.digits) THEN Sign(Len(a.digits) - Len(b.digits))
                                 ELSE Lexical(a.digits, b.digits, 0))

NoExponent == [negative |-> FALSE, digits |-> <<0>>]

(* as_i64 or as_u64 of the token.                                          *)
Integer(token) ==
  LET n == Signed(token.negative, ValueOf(token.digits)) IN
  IF token.point = Len(token.digits) /\ token.exponent = {} /\ (InI64(n) \/ InU64(n)) THEN {n} ELSE {}

NumericKey(token) ==
  LET leading == LeadingZeros(token.digits)
      exponent == IF token.exponent = {} THEN NoExponent ELSE The(token.exponent) IN
  IF leading = Len(token.digits)
  THEN [integer |-> {0}, negative |-> FALSE, digits |-> <<>>, magnitude |-> Small(0)]
  ELSE [integer |-> Integer(token), negative |-> token.negative, digits |-> Trimmed(token.digits),
        magnitude |-> Shifted(exponent, token.point - leading)]

CompareKeys(a, b) ==
  CASE a.integer # {} /\ b.integer # {} -> Sign(The(a.integer) - The(b.integer))
    [] a.digits = <<>> /\ b.digits = <<>> -> 0
    [] a.digits = <<>> -> IF b.negative THEN 1 ELSE -1
    [] b.digits = <<>> -> IF a.negative THEN -1 ELSE 1
    [] a.negative # b.negative -> IF a.negative THEN -1 ELSE 1
    [] OTHER -> LET order == CompareExponents(a.magnitude, b.magnitude) IN
                Signed(a.negative, IF order # 0 THEN order ELSE Lexical(a.digits, b.digits, 0))

(* A key is made once for each token.                                      *)
Compare(a, b) == The({CompareKeys(x, y) : x \in {NumericKey(a)}, y \in {NumericKey(b)}})

Minus == -1

Letter == Radix

(* The text of canonical_number, as codes in the order of its characters.  *)
Canonical(key) ==
  LET body == SubSeq(key.digits, 1, Len(key.digits) - LeadingZeros(Reverse(key.digits)))
      n == The(key.magnitude.small)
      power == IF key.magnitude.small # {}
               THEN (IF n < 0 THEN <<Minus>> \o Numeral[-n] ELSE Numeral[n])
               ELSE (IF key.magnitude.negative THEN <<Minus>> ELSE <<>>) \o key.magnitude.digits IN
  IF key.digits = <<>> THEN <<0>>
  ELSE (IF key.negative THEN <<Minus>> ELSE <<>>) \o <<0>> \o body \o <<Letter>> \o power

CanonicalNumber(token) == The({Canonical(key) : key \in {NumericKey(token)}})

-------------------------------------------------------------------------------
(* Cells.                                                                  *)

Missing == [kind |-> "missing"]

Null == [kind |-> "null"]

Text(t) == [kind |-> "string", text |-> t]

TextRank(t) == CHOOSE k \in DOMAIN Alphabet : Alphabet[k] = t

Number(token) == [kind |-> "number", token |-> token]

FieldsOf(value) == IF value.kind = "object" THEN DOMAIN value.fields ELSE {}

Cell(row, path) ==
  CASE path = "$key" -> Text(row.key)
    [] path = "" -> row.value
    [] path = "$value" -> IF row.value.kind = "object" THEN Missing ELSE row.value
    [] OTHER -> IF path \in FieldsOf(row.value) THEN row.value.fields[path] ELSE Missing

Kinds == <<"missing", "null", "boolean", "number", "string", "array", "object">>

RankOf(cell) == CHOOSE k \in DOMAIN Kinds : Kinds[k] = cell.kind

SizeOf(cell) == IF cell.kind = "array" THEN Len(cell.items) ELSE Cardinality(DOMAIN cell.fields)

(* By: how two tokens compare.                                             *)
CompareCellsBy(By(_, _), a, b) ==
  IF a.kind # b.kind THEN Sign(RankOf(a) - RankOf(b))
  ELSE CASE a.kind = "boolean" -> Sign(a.bit - b.bit)
         [] a.kind = "number" -> By(a.token, b.token)
         [] a.kind = "string" -> Sign(TextRank(a.text) - TextRank(b.text))
         [] a.kind \in {"array", "object"} -> Sign(SizeOf(a) - SizeOf(b))
         [] OTHER -> 0

CompareCells(a, b) == CompareCellsBy(Compare, a, b)

RECURSIVE ContainsText(_, _)
ContainsText(value, needle) ==
  CASE value.kind = "string" -> needle \in Holds[value.text]
    [] value.kind = "array" -> \E k \in DOMAIN value.items : ContainsText(value.items[k], needle)
    [] value.kind = "object" ->
         \E f \in DOMAIN value.fields : needle \in Holds[f] \/ ContainsText(value.fields[f], needle)
    [] value.kind = "missing" -> FALSE
    [] OTHER -> needle \in Written(value)

-------------------------------------------------------------------------------
(* A scan: every row of every snapshot, filtered, in the order of Sources  *)
(* and positions.  A filter's operand is a text that may also read as a    *)
(* number, a boolean or null.                                              *)

Finite(token) ==
  \E magnitude \in {NumericKey(token).magnitude} :
    \/ magnitude.small = {} /\ magnitude.negative
    \/ \E n \in magnitude.small : n <= MaxFinite

ValidFilter(filter) ==
  /\ filter.op # "contains" => \A token \in filter.number : Finite(token)
  /\ filter.op \in {"gt", "lt"} => filter.number # {}

MatchesBy(By(_, _), filter, cell) ==
  CASE filter.op = "contains" -> ContainsText(cell, filter.text)
    [] filter.op = "gt" -> cell.kind = "number" /\ \E token \in filter.number : By(cell.token, token) > 0
    [] filter.op = "lt" -> cell.kind = "number" /\ \E token \in filter.number : By(cell.token, token) < 0
    [] OTHER ->
         CASE cell.kind = "null" -> filter.text = "null"
           [] cell.kind = "boolean" -> filter.text = (IF cell.bit = 1 THEN "true" ELSE "false")
           [] cell.kind = "number" -> \E token \in filter.number : By(cell.token, token) = 0
           [] cell.kind = "string" -> filter.text = cell.text
           [] OTHER -> FALSE

Matches(filter, cell) == MatchesBy(Compare, filter, cell)

Collections == {"array", "object"}

RowsOf(pins) ==
  FlattenSeq([k \in DOMAIN pins |->
    LET held == stored[pins[k].source][pins[k].id] IN
    [i \in DOMAIN held.rows |-> [source |-> pins[k].source, position |-> i, key |-> held.rows[i].key,
                                 value |-> held.rows[i].value]]])

(* Equality with a container is refused when a filter before it has not    *)
(* already dismissed the row.                                              *)
AsksContainer(request, row) ==
  \E i \in DOMAIN request.filters :
    /\ request.filters[i].op = "eq" /\ Cell(row, request.filters[i].path).kind \in Collections
    /\ \A j \in 1 .. i - 1 : Matches(request.filters[j], Cell(row, request.filters[j].path))

KeptBy(By(_, _), request, row) ==
  /\ \A i \in DOMAIN request.filters : MatchesBy(By, request.filters[i], Cell(row, request.filters[i].path))
  /\ \A needle \in request.search : ContainsText(Text(row.key), needle) \/ ContainsText(row.value, needle)

Kept(request, row) == KeptBy(Compare, request, row)

Requested(request) ==
  {request.filters[i].path : i \in DOMAIN request.filters} \cup {sort.path : sort \in request.sort}
  \cup (IF request.mode = "rows" THEN request.columns ELSE {})

DiscoveredColumns(request, all) ==
  {"$key"} \cup (IF request.mode = "groups" \/ request.columns # {} THEN {}
                 ELSE UNION {IF all[i].value.kind = "object" THEN DOMAIN all[i].value.fields ELSE {"$value"}
                             : i \in DOMAIN all})

Scan(pins, request) ==
  LET all == RowsOf(pins)
      columns == DiscoveredColumns(request, all)
      Found(path) == path = "$key" \/ path \in columns \/ \E i \in DOMAIN all : Cell(all[i], path) # Missing
      kept == SelectSeq(all, LAMBDA row : Kept(request, row)) IN
  [ok |-> /\ \A i \in DOMAIN request.filters : ValidFilter(request.filters[i])
          /\ \A k \in DOMAIN pins : stored[pins[k].source][pins[k].id].kind \in Collections
          /\ Cardinality(columns) <= MaxColumns
          /\ \A i \in DOMAIN all : ~AsksContainer(request, all[i])
          /\ (all # <<>> \/ request.mode = "rows") => \A path \in Requested(request) : Found(path),
   rows |-> kept,
   objects |-> \A k \in DOMAIN pins : stored[pins[k].source][pins[k].id].kind = "object"]

-------------------------------------------------------------------------------
(* Pages of rows and of records.                                           *)

(* select_page: select_nth_unstable twice leaves the page between what is  *)
(* less and what is not, and the page alone is sorted.  The order is the   *)
(* set of pairs whose first comes before the second.                       *)
SelectPage(S, order, offset, limit) ==
  LET place == [e \in S |-> Cardinality({f \in S : <<f, e>> \in order})]
      size == Max({0, Min({limit, Cardinality(S) - offset})}) IN
  [k \in 1 .. size |-> CHOOSE e \in S : place[e] = offset + k - 1]

Directed(sort, order) == IF sort.direction = "desc" THEN -order ELSE order

SortOrder(By(_, _), request, a, b) ==
  LET sort == The(request.sort) IN
  Directed(sort, CompareCellsBy(By, Cell(a, sort.path), Cell(b, sort.path)))

InPlace(a, b) == a.source < b.source \/ (a.source = b.source /\ a.position < b.position)

(* Ordering::then: a tie is broken by what comes next.                     *)
Then(order, next) == order < 0 \/ (order = 0 /\ next)

TablePageOrder(list, request, offset) ==
  LET end == Min({offset + request.limit, Len(list)}) IN
  IF request.sort = {} THEN [k \in 1 .. end - offset |-> offset + k]
  ELSE SelectPage(DOMAIN list,
                  {<<i, j>> \in (DOMAIN list) \X (DOMAIN list) :
                     Then(SortOrder(Compare, request, list[i], list[j]), InPlace(list[i], list[j]))},
                  offset, request.limit)

(* One component of an identity, in the order of IdentityPart.             *)
IdentityPart(cell) == IF cell.kind = "number" THEN <<0, The(Integer(cell.token))>> ELSE <<1, TextRank(cell.text)>>

MayIdentify(cell) == cell.kind = "string" \/ (cell.kind = "number" /\ Integer(cell.token) # {})

Identity(row, paths) == FlattenSeq([k \in DOMAIN paths |-> IdentityPart(Cell(row, paths[k]))])

ValidIdentities(scan, paths) ==
  /\ scan.objects \/ \A k \in DOMAIN paths : paths[k] # "$key"
  /\ \A i \in DOMAIN scan.rows, k \in DOMAIN paths : MayIdentify(Cell(scan.rows[i], paths[k]))
  /\ \A i, j \in DOMAIN scan.rows :
       i # j /\ scan.rows[i].source = scan.rows[j].source
       => Identity(scan.rows[i], paths) # Identity(scan.rows[j], paths)

IdentityLess(a, b, paths) == Lexical(Identity(a, paths), Identity(b, paths), 0) < 0

DealtBefore(counts, round) == FoldLeft(LAMBDA sum, n : sum + Min({n, round}), 0, counts)

(* The round in which a position is dealt: the last one that begins at or  *)
(* before it.                                                              *)
IdentityRound(counts, position) ==
  LET RECURSIVE Search(_, _)
      Search(low, high) ==
        LET middle == low + (high - low + 1) \div 2 IN
        IF low >= high THEN low
        ELSE IF DealtBefore(counts, middle) <= position THEN Search(middle, high) ELSE Search(low, middle - 1)
  IN Search(0, Max({0} \cup ToSet(counts)))

(* Deals from the front of the queue until `end`, keeping what comes at or *)
(* after `offset`.                                                         *)
RECURSIVE Deal(_, _, _, _)
Deal(queue, position, offset, end) ==
  IF queue = <<>> THEN <<>>
  ELSE LET source == Head(queue)
           dealt == IF position >= offset THEN <<Head(source)>> ELSE <<>>
           rest == IF Len(source) > 1 THEN Append(Tail(queue), Tail(source)) ELSE Tail(queue) IN
       IF position + 1 = end THEN dealt ELSE dealt \o Deal(rest, position + 1, offset, end)

(* A plausible slip: as if every Source had a row in every earlier round.  *)
DealtEvenly(counts, round) == round * Len(counts)

StartOfRound(counts, round) == DealtBefore(counts, round)

InterleavedIdentityPage(list, pins, request, offset) ==
  LET end == Min({offset + request.limit, Len(list)})
      bucket == [k \in DOMAIN pins |-> {i \in DOMAIN list : list[i].source = pins[k].source}]
      counts == [k \in DOMAIN pins |-> Cardinality(bucket[k])]
      first == IdentityRound(counts, offset)
      last == IdentityRound(counts, end - 1)
      order == {<<i, j>> \in (DOMAIN list) \X (DOMAIN list) : IdentityLess(list[i], list[j], request.identity)}
      windows == [k \in DOMAIN pins |-> SelectPage(bucket[k], order, first, last - first + 1)] IN
  IF offset >= Len(list) THEN <<>>
  ELSE Deal(SelectSeq(windows, LAMBDA w : w # <<>>), StartOfRound(counts, first), offset, end)

RecordsPage(list, pins, request, offset) ==
  IF request.sort = {} THEN InterleavedIdentityPage(list, pins, request, offset)
  ELSE SelectPage(DOMAIN list,
                  {<<i, j>> \in (DOMAIN list) \X (DOMAIN list) :
                     Then(SortOrder(Compare, request, list[i], list[j]),
                          Then(list[i].source - list[j].source,
                               IdentityLess(list[i], list[j], request.identity)))},
                  offset, request.limit)

-------------------------------------------------------------------------------
(* Groups and their measures.                                              *)

End == -2

Tags == <<"boolean", "missing", "null", "number", "string">>

MayGroup(cell) == \E k \in DOMAIN Tags : Tags[k] = cell.kind

ScalarText(cell) ==
  <<CHOOSE k \in DOMAIN Tags : Tags[k] = cell.kind>>
  \o (CASE cell.kind = "boolean" -> <<cell.bit>>
        [] cell.kind = "number" -> CanonicalNumber(cell.token)
        [] cell.kind = "string" -> <<TextRank(cell.text)>>
        [] OTHER -> <<>>)
  \o <<End>>

GroupKey(row, request) == FlattenSeq([k \in DOMAIN request.by |-> ScalarText(Cell(row, request.by[k]))])

IntegerToken(n) ==
  LET digits == Numeral[IF n < 0 THEN -n ELSE n] IN
  [negative |-> n < 0, digits |-> digits, point |-> Len(digits), exponent |-> {}]

Magnitude(key) == [key EXCEPT !.negative = FALSE, !.integer = {IF n < 0 THEN -n ELSE n : n \in @}]

CompareMagnitudes(a, b) ==
  The({CompareKeys(x, y) : x \in {Magnitude(NumericKey(a))}, y \in {Magnitude(NumericKey(b))}})

(* The first token that no later one is better than.                       *)
BestOf(numbers, Better(_, _)) ==
  FoldLeft(LAMBDA best, cell : IF \A token \in best : Better(cell.token, token) THEN {cell.token} ELSE best,
           {}, numbers)

Nonzero(numbers) == SelectSeq(numbers, LAMBDA cell : LeadingZeros(cell.token.digits) < Len(cell.token.digits))

(* Accumulator: what one measure makes of the cells of one Source's rows.  *)
Measured(list, measure) ==
  LET cells == [i \in DOMAIN list |-> IF measure.path = {} THEN Null ELSE Cell(list[i], The(measure.path))]
      Absent(cell) == cell.kind \in {"missing", "null"}
      numbers == SelectSeq(cells, LAMBDA cell : cell.kind = "number")
      absent == SelectSeq(cells, Absent)
      approximate == \E i \in DOMAIN numbers : Integer(numbers[i].token) = {}
      sum == FoldLeft(LAMBDA n, cell : n + The(Integer(cell.token)), 0, numbers) IN
  IF measure.op = "count"
  THEN LET missing == IF measure.path = {} THEN 0 ELSE Len(absent) IN
       [value |-> {IntegerToken(Len(list) - missing)}, magnitude |-> {}, count |-> Len(list) - missing,
        missing |-> missing, nonNumeric |-> 0, approximate |-> FALSE]
  ELSE [value |-> CASE numbers = <<>> -> {}
                    [] measure.op = "sum" -> IF approximate THEN {} ELSE {IntegerToken(sum)}
                    [] measure.op = "min" -> BestOf(numbers, LAMBDA a, b : Compare(a, b) < 0)
                    [] OTHER -> BestOf(numbers, LAMBDA a, b : Compare(a, b) > 0),
        magnitude |-> IF measure.op = "min"
                      THEN BestOf(Nonzero(numbers), LAMBDA a, b : CompareMagnitudes(a, b) < 0) ELSE {},
        count |-> Len(numbers), missing |-> Len(absent),
        nonNumeric |-> Len(list) - Len(numbers) - Len(absent),
        approximate |-> measure.op = "sum" /\ approximate]

RowsAmong(list, ids) == LET order == SetToSortSeq(ids, <) IN [k \in DOMAIN order |-> list[order[k]]]

GroupBy(list, keys, request) ==
  {[key |-> key,
    cells |-> LET first == CHOOSE i \in DOMAIN list : keys[i] = key /\ \A j \in 1 .. i - 1 : keys[j] # key IN
              [k \in DOMAIN request.by |-> Cell(list[first], request.by[k])],
    series |-> [source \in {list[i].source : i \in {j \in DOMAIN list : keys[j] = key}} |->
                  [k \in DOMAIN request.measures |->
                     Measured(RowsAmong(list, {i \in DOMAIN list : keys[i] = key /\ list[i].source = source}),
                              request.measures[k])]]]
   : key \in ToSet(keys)}

GroupsOfRows(list, request) == GroupBy(list, [i \in DOMAIN list |-> GroupKey(list[i], request)], request)

(* A category ranks by its largest Source; one without a number comes last.*)
RankOfGroup(group, measure) ==
  FoldSet(LAMBDA source, best :
            LET value == group.series[source][measure].value IN
            IF value # {} /\ \A token \in best : Compare(The(value), token) > 0 THEN value ELSE best,
          {}, DOMAIN group.series)

RanksBefore(order, ra, rb, tied) ==
  CASE ra = {} /\ rb = {} -> tied
    [] ra = {} -> FALSE
    [] rb = {} -> TRUE
    [] OTHER -> Then(Directed(order, Compare(The(ra), The(rb))), tied)

GroupLess(request, a, b) ==
  LET text == Lexical(a.key, b.key, End) < 0 IN
  IF request.order = {} THEN text
  ELSE LET order == The(request.order) IN
       RanksBefore(order, RankOfGroup(a, order.measure), RankOfGroup(b, order.measure), text)

-------------------------------------------------------------------------------
(* A read: the snapshots it is of, then its page.                          *)

Refused == [is |-> "invalid", total |-> 0, page |-> <<>>]

PageOfRows(list, page) ==
  [is |-> "ok", total |-> Len(list), page |-> [k \in DOMAIN page |-> list[page[k]]]]

PageOfGroups(groups, request, offset) ==
  [is |-> "ok", total |-> Cardinality(groups),
   page |-> SelectPage(groups, {<<a, b>> \in groups \X groups : GroupLess(request, a, b)}, offset, request.limit)]

Answer(scan, request, pins, offset) ==
  CASE ~scan.ok -> Refused
    [] request.mode = "rows" -> PageOfRows(scan.rows, TablePageOrder(scan.rows, request, offset))
    [] request.mode = "records" ->
         IF ~ValidIdentities(scan, request.identity) THEN Refused
         ELSE PageOfRows(scan.rows, RecordsPage(scan.rows, pins, request, offset))
    [] OTHER ->
         IF \E i \in DOMAIN scan.rows, k \in DOMAIN request.by : ~MayGroup(Cell(scan.rows[i], request.by[k]))
         THEN Refused ELSE PageOfGroups(GroupsOfRows(scan.rows, request), request, offset)

(* table_snapshots without pins: the head of every selected Source, or an  *)
(* error when one has none.                                                *)
HeadsOf(request) == [k \in DOMAIN request.sources |->
                       [source |-> request.sources[k], id |-> Len(stored[request.sources[k]])]]

NoView == [at |-> "idle"]

TablesInit(sources) == stored = [s \in sources |-> <<>>] /\ view = NoView

Capture(source, collection) ==
  /\ stored' = [stored EXCEPT ![source] = Append(@, collection)]
  /\ UNCHANGED view

Shows(request, pins, offset, out) ==
  \E scan \in {Scan(pins, request)} :
    \E answer \in {Answer(scan, request, pins, offset)} :
      view' = [at |-> IF answer.is # "ok" THEN answer.is
                      ELSE IF offset + request.limit >= answer.total THEN "done" ELSE "reading",
               request |-> request, pins |-> pins, offset |-> offset + request.limit,
               out |-> out \o answer.page, total |-> answer.total]

OpenView(request) ==
  /\ view.at = "idle"
  /\ IF \E k \in DOMAIN request.sources : stored[request.sources[k]] = <<>>
     THEN view' = [at |-> "invalid"]
     ELSE Shows(request, HeadsOf(request), 0, <<>>)
  /\ UNCHANGED stored

(* A client pins the snapshots its first page named, which stay as they    *)
(* were.                                                                   *)
TurnPage ==
  /\ view.at = "reading"
  /\ Shows(view.request, view.pins, view.offset, view.out)
  /\ UNCHANGED stored

-------------------------------------------------------------------------------
(* What the tokens are worth.                                              *)
Power(token) ==
  (IF token.exponent = {} THEN 0 ELSE Signed(The(token.exponent).negative, ValueOf(The(token.exponent).digits)))
  - (Len(token.digits) - token.point)

ByValue(a, b) ==
  LET low == Min({Power(a), Power(b)})
      Worth(token) == Signed(token.negative, ValueOf(token.digits)) * Radix ^ (Power(token) - low) IN
  Sign(Worth(a) - Worth(b))

SameCell(a, b) == a.kind = b.kind /\ (IF a.kind = "number" THEN ByValue(a.token, b.token) = 0 ELSE a = b)

(* Records dealt in rounds: by their place in their own Source first.      *)
RoundOf(list, row, paths) ==
  Cardinality({i \in DOMAIN list : list[i].source = row.source /\ IdentityLess(list[i], row, paths)})

InOrder(request, list, a, b) ==
  LET order == IF request.sort = {} THEN 0 ELSE SortOrder(ByValue, request, a, b)
      ra == RoundOf(list, a, request.identity)
      rb == RoundOf(list, b, request.identity) IN
  IF order # 0 THEN order < 0
  ELSE IF request.mode = "rows" THEN InPlace(a, b)
  ELSE IF request.sort = {} THEN ra < rb \/ (ra = rb /\ a.source < b.source)
  ELSE a.source < b.source \/ (a.source = b.source /\ ra < rb)

(* Categories by the largest value any of their Sources has; those without *)
(* a number come last.                                                     *)
Ranked(order, groups) ==
  LET Values(g) == UNION {groups[g].series[source][order.measure].value : source \in DOMAIN groups[g].series} IN
  \A g, h \in DOMAIN groups :
    g < h /\ Values(h) # {} =>
      /\ Values(g) # {}
      /\ order.direction = "desc" => \E v \in Values(g) : \A w \in Values(h) : ByValue(v, w) >= 0
      /\ order.direction = "asc" => \E w \in Values(h) : \A v \in Values(g) : ByValue(v, w) <= 0

ExactGroups(kept) ==
  LET request == view.request
      Fit(row, group) == \A k \in DOMAIN request.by : SameCell(Cell(row, request.by[k]), group.cells[k]) IN
  /\ \A i \in DOMAIN kept : Cardinality({k \in DOMAIN view.out : Fit(kept[i], view.out[k])}) = 1
  /\ \A order \in request.order : Ranked(order, view.out)
  /\ \A k \in DOMAIN view.out, m \in DOMAIN request.measures :
       \A source \in DOMAIN view.out[k].series :
         LET result == view.out[k].series[source][m]
             list == SelectSeq(kept, LAMBDA row : row.source = source /\ Fit(row, view.out[k]))
             numbers == {Cell(list[i], path).token :
                           i \in {j \in DOMAIN list : \E p \in request.measures[m].path :
                                    Cell(list[j], p).kind = "number"}, path \in request.measures[m].path} IN
         /\ result.count + result.missing + result.nonNumeric = Len(list)
         /\ \A value \in result.value :
              CASE request.measures[m].op = "min" -> \A token \in numbers : ByValue(value, token) <= 0
                [] request.measures[m].op = "max" -> \A token \in numbers : ByValue(value, token) >= 0
                [] OTHER -> TRUE
         /\ \A least \in result.magnitude, token \in numbers :
              ValueOf(token.digits) # 0 =>
                ByValue([least EXCEPT !.negative = FALSE], [token EXCEPT !.negative = FALSE]) <= 0

(* The pages a client reads, of the snapshots its first page named, are    *)
(* the pieces of one list, whatever is captured between them: every row    *)
(* that its filters keep, once, in the order the request asks for, or      *)
(* interleaved across Sources when it asks for none; each row in one group *)
(* and the group's numbers those of its rows.  Numbers are ordered,        *)
(* filtered and grouped by what they are worth, however they are written   *)
(* (snapshot_store/tables.rs, tables/views.rs).                            *)
PagesAreExact ==
  view.at \in {"reading", "done"} =>
    LET request == view.request
        kept == SelectSeq(RowsOf(view.pins), LAMBDA row : KeptBy(ByValue, request, row)) IN
    IF request.mode = "groups"
    THEN view.at = "done" => ExactGroups(kept)
    ELSE LET Earlier(row) == {i \in DOMAIN kept : InOrder(request, kept, kept[i], row)} IN
         /\ view.total = Len(kept)
         /\ \A k \in DOMAIN view.out : view.out[k] \in ToSet(kept) /\ Cardinality(Earlier(view.out[k])) = k - 1
         /\ view.at = "done" => Len(view.out) = Len(kept)
===============================================================================
