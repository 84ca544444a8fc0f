--------------------------- MODULE ExportAnalysis ---------------------------
(***************************************************************************)
(* What src/export_analyser reads out of an uploaded file: its kind, what  *)
(* its columns hold, the type of its data, its metrics and the pain flags  *)
(* they suggest, with and without the LLM.  Confidences are whole per      *)
(* cents; the text of the enrichment is the set of facts it mentions.      *)
(*                                                                         *)
(* A file is [format, content, sheets, months, seasonal].  A sheet is      *)
(* [columns, rows], a column [header, values].  All dates of a file span   *)
(* .months; .seasonal says that their monthly numbers vary by 45% or more. *)
(***************************************************************************)
EXTENDS Integers, Sequences, FiniteSets, FiniteSetsExt, TLC

-----------------------------------------------------------------------------
(* What a column holds *)

\* Dates, by the hours they lie after the creation of the row's ticket.
Dates == [created |-> 0, soon |-> 2, nextday |-> 30, laterweek |-> 168,
          zoned |-> 0, zonedweek |-> 168, summer |-> 0, summerweek |-> 168]

\* The UTC offsets they are written with: none, one in all rows, or, in an export that
\* spans the change to summer time, several.  What is no date is parsed as a missing one,
\* without an offset.
Offsets(values) ==
    CASE values \in {"zoned", "zonedweek"}   -> "one"
      [] values \in {"summer", "summerweek"} -> "several"
      [] OTHER                               -> "none"

\* Several values that repeat; "onesource" repeats one.
Categories == {"socials", "shops", "onesource", "backlog", "handled"}
Contents == DOMAIN Dates \cup Categories \cup {"numbers", "words", "blank"}

IsDate(values) == values \in DOMAIN Dates

Distinct(values) == IF values = "onesource" THEN 1 ELSE 3

\* infer_roles, of the first 200 rows.
Role(column, rows) ==
    CASE IsDate(column.values) -> "date"
      [] column.values = "numbers" -> "numeric"
      [] column.values \in Categories /\ 2 * Distinct(column.values) <= Min({rows, 200}) -> "category"
      [] OTHER -> "text"

-----------------------------------------------------------------------------
(* Reading *)

Tabular == {"csv", "xlsx", "json", "jsonl"}

\* _records_from_frame: columns without a value are dropped.
Kept(columns) == SelectSeq(columns, LAMBDA c : c.values # "blank")

\* The sheets that have the columns of the first are read as one.
RowsOf(sheets) ==
    MapThenSumSet(LAMBDA i : sheets[i].rows,
                  {i \in DOMAIN sheets : sheets[i].columns = sheets[1].columns})

Read(file) ==
    LET none == [kind |-> "none", columns |-> <<>>, rows |-> 0] IN
    CASE file.content = "empty" \/ file.format = "unknown" -> none
      [] file.format \in Tabular /\ file.content = "garbled" -> none
      [] file.format \in Tabular ->
           LET rows == RowsOf(file.sheets) IN
           [kind |-> "tabular", rows |-> rows,
            columns |-> IF rows = 0 THEN <<>> ELSE Kept(file.sheets[1].columns)]
      [] file.format = "pdf" /\ file.content = "garbled" -> none
      [] file.format = "pdf" /\ file.content = "text" -> [none EXCEPT !.kind = "text"]
      [] OTHER -> [none EXCEPT !.kind = "image"]

MinRows == 2

\* Mutant of CanAnalyse: a format that is known is enough.
KnownFormat(file) == file.format # "unknown" /\ file.content # "empty"

\* validate: can_analyze.
CanAnalyse(file) ==
    LET read == Read(file) IN
    CASE read.kind = "none" -> FALSE
      [] read.kind = "tabular" -> read.columns # <<>> /\ read.rows >= MinRows
      [] OTHER -> TRUE

-----------------------------------------------------------------------------
(* Columns and types *)

\* A header of each standard field, and some that belong to another field than they
\* seem to: an alias belongs to the first field that lists it, and a header with an
\* alias among its words to the longest alias.
FieldOf == [
    order_number |-> "order_id", name |-> "order_id", created_at |-> "date",
    order_date |-> "date", data |-> "date", status |-> "status", state |-> "status",
    total |-> "amount", price |-> "amount", total_stock |-> "amount", source |-> "channel",
    product |-> "product_name", description |-> "product_name", quantity |-> "quantity",
    customer |-> "customer", city |-> "city", country |-> "country",
    carrier |-> "delivery_service", shipped_at |-> "delivery_date", owner |-> "manager",
    email |-> "email", phone |-> "phone", case_id |-> "ticket_id", subject |-> "subject",
    opened_at |-> "created_at", first_reply |-> "first_response_at",
    response_time_h |-> "first_response_at", contact |-> "lead_name", deal_stage |-> "stage",
    on_hand |-> "stock_quantity", c1 |-> "", c2 |-> "", c3 |-> ""]

StandardFields == {FieldOf[h] : h \in DOMAIN FieldOf} \ {""}

\* fingerprint: a field goes to the first column that names it.
Fingerprint(columns) ==
    [f \in {FieldOf[columns[i].header] : i \in DOMAIN columns} \ {""} |->
        Min({i \in DOMAIN columns : FieldOf[columns[i].header] = f})]

Count(facts) == Cardinality({i \in DOMAIN facts : facts[i]})

\* classify: the types with their scores, in the order in which the code tries them.
TypeScores(fields, roles, rows) ==
    LET date     == fields \cap {"date", "created_at"} # {} \/ "date" \in roles
        amount   == "amount" \in fields \/ "numeric" \in roles
        category == fields \cap {"status", "channel", "product_name"} # {} \/ "category" \in roles
        marked   == fields \cap {"first_response_at", "ticket_id", "subject"} # {}
    IN  <<[type |-> "support_tickets",
           score |-> IF ~marked \/ "amount" \in fields THEN 0
                     ELSE 25 * Count(<<"first_response_at" \in fields,
                                       fields \cap {"ticket_id", "subject"} # {},
                                       "status" \in fields, date>>)],
          [type |-> "orders",
           score |-> IF ~date \/ ~amount THEN 0
                     ELSE 25 * Count(<<date, amount, category,
                                       fields \cap {"order_id", "product_name"} # {}>>)],
          [type |-> "crm_leads",
           score |-> IF fields \cap {"lead_name", "stage"} = {} THEN 0
                     ELSE 25 * Count(<<"lead_name" \in fields, "stage" \in fields,
                                       "channel" \in fields, date>>)],
          [type |-> "inventory",
           score |-> IF ~({"stock_quantity", "product_name"} \subseteq fields) THEN 0
                     ELSE IF amount THEN 100 ELSE 85],
          [type |-> "analytics",
           score |-> IF rows <= 36 /\ date /\ amount /\ "order_id" \notin fields /\ ~marked
                     THEN 60 ELSE 0]>>

\* The first of the highest scores; without any the type is unknown.
Classify(fields, roles, rows) ==
    LET scores == TypeScores(fields, roles, rows)
        best == Max({scores[i].score : i \in DOMAIN scores})
    IN  IF best = 0 THEN [type |-> "unknown", score |-> 0]
        ELSE scores[Min({i \in DOMAIN scores : scores[i].score = best})]

CoreFields == [
    orders |-> {"date", "amount", "status", "channel", "product_name"},
    support_tickets |-> {"created_at", "first_response_at", "status", "subject"},
    crm_leads |-> {"lead_name", "stage", "channel"},
    inventory |-> {"product_name", "stock_quantity"},
    analytics |-> {"date", "amount"}]
DataTypes == DOMAIN CoreFields \cup {"unknown"}

\* analyse_classical: the type, and where each field is.
Classical(read) ==
    LET mapping == Fingerprint(read.columns)
        roles == {Role(read.columns[i], read.rows) : i \in DOMAIN read.columns}
        best == Classify(DOMAIN mapping, roles, read.rows)
        core == IF best.type = "unknown" THEN {} ELSE CoreFields[best.type]
    IN  [type |-> best.type, confidence |-> best.score, mapping |-> mapping,
         named |-> IF core = {} THEN 0
                   ELSE (100 * Cardinality(DOMAIN mapping \cap core)) \div Cardinality(core)]

\* The map is too poor to go without the LLM.
Weak(map) == map.type = "unknown" \/ map.named < 50

\* map_columns: what is left of the LLM's guess, a [type, mapping].
Sound(guess, read) ==
    LET S == {f \in DOMAIN guess.mapping \cap StandardFields :
                 guess.mapping[f] \in DOMAIN read.columns}
    IN  [type |-> IF guess.type \in DataTypes THEN guess.type ELSE "unknown",
         mapping |-> [f \in S |-> guess.mapping[f]]]

\* Mutant of Merged: the LLM's guess comes before the names in the file.
GuessFirst(map, guess) ==
    [map EXCEPT !.type = IF @ = "unknown" THEN guess.type ELSE @,
                !.mapping = guess.mapping @@ @]

\* _analyse_tabular: names in the file come before the LLM's guess.
Merged(map, guess) ==
    IF DOMAIN guess.mapping = {} THEN map
    ELSE [type |-> IF map.type = "unknown" THEN guess.type ELSE map.type,
          confidence |-> Max({map.confidence, Min({100, 25 * Cardinality(DOMAIN guess.mapping)})}),
          mapping |-> [f \in DOMAIN map.mapping \cup DOMAIN guess.mapping |->
                         IF f \in DOMAIN map.mapping THEN map.mapping[f] ELSE guess.mapping[f]],
          named |-> map.named]

-----------------------------------------------------------------------------
(* Metrics *)

Unknown == -1

\* The values of the column of a field, "nothing" if there is none.
ValuesOf(read, mapping, field) ==
    IF field \in DOMAIN mapping THEN read.columns[mapping[field]].values ELSE "nothing"

\* The first of two fields that is there.
Either(mapping, f, g) == IF f \in DOMAIN mapping THEN f ELSE g

\* The months are counted in one of two columns, the hours start in the other.
DateValues(read, map) == ValuesOf(read, map.mapping, Either(map.mapping, "date", "created_at"))
CreatedValues(read, map) == ValuesOf(read, map.mapping, Either(map.mapping, "created_at", "date"))
FirstValues(read, map) == ValuesOf(read, map.mapping, "first_response_at")

\* The offsets that meet in "first - created".
Subtracted(read, map) ==
    LET values == {CreatedValues(read, map), FirstValues(read, map)} IN
    IF map.type = "support_tickets" /\ "nothing" \notin values THEN {Offsets(v) : v \in values} ELSE {}

\* extract_metrics raises: dates with several offsets are objects, without a month, and a
\* time with an offset cannot be subtracted from one without.
MustRaise(read, map) ==
    \/ Offsets(DateValues(read, map)) = "several"
    \/ "none" \in Subtracted(read, map) /\ Subtracted(read, map) # {"none"}

\* pandas 3 refuses to parse several offsets, earlier ones subtract the objects; no
\* version is required.
MayRaise(read, map) == MustRaise(read, map) \/ "several" \in Subtracted(read, map)

\* There is a time with an offset in the file.
HasOffsets(read) == \E i \in DOMAIN read.columns : Offsets(read.columns[i].values) # "none"

\* Nine of ten entries of a backlog are open, one of ten of what is handled.
OpenItems(status, rows) ==
    IF status = "backlog" THEN (9 * rows) \div 10 ELSE IF status = "handled" THEN rows \div 10 ELSE 0
ClosedItems(status, rows) ==
    IF status \in {"backlog", "handled"} THEN rows - OpenItems(status, rows) ELSE 0

\* extract_metrics, when it does not raise.  Only rows that were answered after they were
\* created count.
ResponseHours(read, map) ==
    LET created == CreatedValues(read, map)
        first   == FirstValues(read, map)
    IN  IF map.type = "support_tickets" /\ IsDate(created) /\ IsDate(first)
           /\ Dates[first] >= Dates[created]
        THEN Dates[first] - Dates[created] ELSE Unknown

Metrics(file, read, map) ==
    LET channel == ValuesOf(read, map.mapping, "channel")
        status  == ValuesOf(read, map.mapping, "status")
        dated   == IsDate(DateValues(read, map)) /\ read.rows >= 2
    IN  [records  |-> read.rows,
         channels |-> IF channel = "nothing" THEN 0 ELSE Min({read.rows, Distinct(channel)}),
         social   |-> channel = "socials",
         months   |-> IF dated THEN Max({1, file.months}) ELSE 0,
         seasonal |-> dated /\ file.seasonal,
         response |-> ResponseHours(read, map),
         open     |-> OpenItems(status, read.rows),
         closed   |-> ClosedItems(status, read.rows),
         counted  |-> status # "nothing"]

\* build_enrichment: the facts the text mentions.  Order values and missing
\* deliveries, which nothing else reads, are left out.
Facts(m) ==
    (IF m.records > 0 THEN {"records"} ELSE {})
    \cup (IF m.channels > 0 THEN {"channels"} ELSE {})
    \cup (IF m.response # Unknown THEN {"response"} ELSE {})
    \cup (IF m.counted /\ m.open + m.closed > 0 THEN {"open"} ELSE {})
    \cup (IF m.seasonal THEN {"season"} ELSE {})

-----------------------------------------------------------------------------
(* Pain flags *)

SupportFlags == {"SLOW_RESPONSE", "HIGH_VOLUME_SUPPORT", "REPETITIVE_SUPPORT", "TICKET_OVERLOAD"}

\* Mutant of FlagGrounded.
Anything(flag, type, m) == TRUE

FlagGrounded(flag, type, m) ==
    IF flag = "SLOW_RESPONSE" THEN m.response # Unknown
    ELSE flag \in SupportFlags => type = "support_tickets"

\* What the numbers of an export suggest, and how sure that is.
Suggested(m) ==
    (IF m.response >= 24 THEN {"SLOW_RESPONSE"} ELSE {})
    \cup (IF m.open + m.closed >= 50 /\ m.open > 3 * Max({1, m.closed})
          THEN {"HIGH_VOLUME_SUPPORT"} ELSE {})
    \cup (IF m.channels >= 2 THEN {"MULTICHANNEL"} ELSE {})
    \cup (IF m.seasonal THEN {"STOCKOUTS_UNIVERSAL"} ELSE {})

Sureness(m) ==
    [SLOW_RESPONSE |-> IF m.response >= 48 THEN 95 ELSE 75, HIGH_VOLUME_SUPPORT |-> 82,
     MULTICHANNEL |-> IF m.social THEN 90 ELSE 70, STOCKOUTS_UNIVERSAL |-> 60]

\* suggest_pain_flags
Suggest(type, m) ==
    [f \in {g \in Suggested(m) : FlagGrounded(g, type, m)} |-> Sureness(m)[f]]

\* _ALLOWED_FLAGS
AllowedFlags == {"SLOW_RESPONSE", "HIGH_VOLUME_SUPPORT", "REPETITIVE_SUPPORT", "MULTICHANNEL",
                 "STOCKOUTS_UNIVERSAL", "OVERSTOCK", "MANUAL_DATA_ENTRY", "SLOW_ORDER_PROC",
                 "MANUAL_RETURNS", "LOW_REPEAT_PURCHASES"}

\* extract_signals: from the menu, a confidence, and grounded.
ValidSignals(signals, type, m) ==
    [f \in {g \in DOMAIN signals \cap AllowedFlags :
               signals[g] \in 0..100 /\ FlagGrounded(g, type, m)} |-> signals[f]]

\* The higher confidence of the two.
MaxMerge(flags, signals) ==
    [f \in DOMAIN flags \cup DOMAIN signals |->
        IF f \notin DOMAIN flags THEN signals[f]
        ELSE IF f \notin DOMAIN signals THEN flags[f]
        ELSE Max({flags[f], signals[f]})]

\* _data_readiness
Readiness(m, confidence) ==
    IF confidence < 30 THEN Unknown
    ELSE (50 * Min({100, (100 * m.months) \div 12}) + 30 * Min({100, m.records \div 5})
          + 20 * confidence) \div 100

=============================================================================
