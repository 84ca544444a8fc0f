------------------------------ MODULE MCAdvice ------------------------------
(***************************************************************************)
(* The catalogue of the repository with what an admin added to it, the     *)
(* exports, forms and LLM answers of the run Advice.                       *)
(***************************************************************************)
EXTENDS Advice

ById(rows) == [c \in {rows[i].id : i \in DOMAIN rows} |->
                  rows[CHOOSE i \in DOMAIN rows : rows[i].id = c]]

\* Written by an admin: one that needs data, one whose products are not GDPR-compliant,
\* and one that no pain flag leads to.
AdminCapabilities == <<
    Row("order_anomaly_alerts", "ecommerce_ops", 0, {"orders", "inventory"}, 12, 1,
        {"SLOW_ORDER_PROC", "STOCKOUTS_UNIVERSAL"}),
    Row("inbox_triage_us", "customer_support", 1, {}, 0, 1, {"SLOW_RESPONSE"}),
    Row("brand_voice_check", "marketing", 1, {}, 0, 3, {}) >>

MCCatalogue ==
    LET seed == ById(SeedCapabilities)
        admin == ById(AdminCapabilities)
    IN  [c \in DOMAIN seed \cup DOMAIN admin |->
            IF c \in DOMAIN seed THEN Migrated(seed[c]) ELSE FromPgRow(admin[c])]

\* With and without PostgreSQL the seed is the same catalogue (src/catalog).
ASSUME SameOnBothBackends ==
    \A i \in DOMAIN SeedCapabilities :
        FromDbRow(SeedCapabilities[i]) = Migrated(SeedCapabilities[i])

Offer(id, capability, gdpr, price, platforms, size, setup) ==
    [Product(id, capability, {"api"}, gdpr)
        EXCEPT !.price = price, !.platforms = platforms, !.size = size, !.setup = setup]

\* After those of catalog.db, in the order of their ids.
AdminProducts == <<
    Offer("zz_alert_lite", "order_anomaly_alerts", 1, "starter", {"shopify"}, "micro", "no_code"),
    Offer("zz_alert_pro", "order_anomaly_alerts", 1, "enterprise", {"magento"}, "medium",
          "developer"),
    Offer("zz_alert_us", "order_anomaly_alerts", 0, "free", {"shopify"}, "any", "no_code"),
    Offer("zz_triage", "inbox_triage_us", 0, "growth", {}, "small", "low_code"),
    Offer("zz_winback", "abandoned_cart_recovery", 1, "free", {"shopify", "klaviyo"}, "any",
          "no_code") >>

MCProducts ==
    LET all == SeedProducts \o AdminProducts
    IN  {[all[i] EXCEPT !.no = i] : i \in DOMAIN all}

-----------------------------------------------------------------------------
Col(header, values) == [header |-> header, values |-> values]
Sheet(columns, rows) == [columns |-> columns, rows |-> rows]
Upl(format, sheets, months, seasonal) ==
    [format |-> format, content |-> "table", sheets |-> sheets, months |-> months,
     seasonal |-> seasonal]

Tickets(first, status) ==
    <<Col("case_id", "words"), Col("opened_at", "created"), Col("first_reply", first),
      Col("status", status), Col("source", "socials")>>

MCFiles == {
    Upl("csv", <<Sheet(Tickets("laterweek", "backlog"), 80)>>, 4, FALSE),
    Upl("xlsx", <<Sheet(Tickets("nextday", "handled"), 30),
                  Sheet(Tickets("nextday", "handled"), 30)>>, 12, TRUE),
    Upl("csv", <<Sheet(<<Col("order_number", "words"), Col("order_date", "created"),
                         Col("total", "numbers"), Col("status", "backlog"),
                         Col("source", "shops"), Col("email", "blank")>>, 60)>>, 24, TRUE),
    Upl("json", <<Sheet(<<Col("c1", "created"), Col("c2", "laterweek"), Col("c3", "socials")>>,
                        40)>>, 6, FALSE),
    Upl("csv", <<Sheet(<<Col("case_id", "words"), Col("source", "socials"), Col("data", "created"),
                         Col("first_reply", "laterweek"), Col("c1", "words")>>, 20)>>, 8, TRUE),
    Upl("json", <<Sheet(<<Col("case_id", "words"), Col("opened_at", "zoned"),
                          Col("first_reply", "zonedweek")>>, 55)>>, 2, FALSE),
    Upl("csv", <<Sheet(Tickets("zonedweek", "handled"), 40)>>, 5, FALSE),
    Upl("csv", <<Sheet(<<Col("case_id", "words"), Col("opened_at", "zoned"),
                         Col("first_reply", "summerweek")>>, 70)>>, 7, TRUE),
    Upl("jsonl", <<Sheet(<<Col("order_number", "words"), Col("order_date", "summer"),
                           Col("total", "numbers"), Col("status", "handled")>>, 200)>>, 14, TRUE),
    Upl("csv", <<Sheet(<<Col("contact", "words"), Col("opened_at", "created"),
                         Col("c1", "words")>>, 25)>>, 10, TRUE),
    Upl("csv", <<Sheet(<<Col("c1", "words")>>, 1)>>, 0, FALSE),
    Upl("xlsx", <<Sheet(<<Col("owner", "words"), Col("deal_stage", "backlog"),
                          Col("contact", "words"), Col("quantity", "numbers")>>, 5),
                  Sheet(<<Col("owner", "words")>>, 300)>>, 0, FALSE),
    Upl("jsonl", <<Sheet(<<Col("case_id", "words"), Col("total", "numbers"),
                           Col("data", "created"), Col("state", "handled")>>, 90)>>, 9, TRUE),
    Upl("csv", <<Sheet(<<Col("c1", "words")>>, 0)>>, 0, FALSE),
    [Upl("csv", <<>>, 0, FALSE) EXCEPT !.content = "garbled"],
    [Upl("csv", <<>>, 0, FALSE) EXCEPT !.content = "empty"],
    [Upl("unknown", <<>>, 0, FALSE) EXCEPT !.content = "garbled"],
    [Upl("png", <<>>, 0, FALSE) EXCEPT !.content = "picture"],
    [Upl("pdf", <<>>, 0, FALSE) EXCEPT !.content = "scan"],
    [Upl("pdf", <<>>, 0, FALSE) EXCEPT !.content = "text"] }

\* Of each column the LLM may say a field, and one column too many.
MCGuesses(n) ==
    [type : {"support_tickets", "orders", "a story"},
     mapping : {<<>>, "created_at" :> 1 @@ "first_response_at" :> 2, "channel" :> n @@ "date" :> n,
                "created_at" :> 1 @@ "mood" :> 2, "status" :> n + 1}]

MCSignals == {
    <<>>,
    "SLOW_RESPONSE" :> 50 @@ "REPETITIVE_SUPPORT" :> 80,
    "OVERSTOCK" :> 72 @@ "TICKET_OVERLOAD" :> 99,
    "MULTICHANNEL" :> 65 @@ "MANUAL_RETURNS" :> 120,
    "STOCKOUTS_UNIVERSAL" :> 75 @@ "WORLD_HUNGER" :> 100 }

-----------------------------------------------------------------------------
\* Of the options of a question the one that raises most flags, and one that does not.
Hardest(q) == CHOOSE o \in DOMAIN Questions[q] :
    \A p \in DOMAIN Questions[q] : Cardinality(Questions[q][p]) <= Cardinality(Questions[q][o])
Milder(q) == CHOOSE o \in DOMAIN Questions[q] \ {Hardest(q)} :
    \A p \in DOMAIN Questions[q] \ {Hardest(q)} :
        Cardinality(Questions[q][p]) <= Cardinality(Questions[q][o])

Answers(hard, mild, extras) ==
    [q \in DOMAIN hard \cup DOMAIN mild \cup DOMAIN extras |->
        CASE q \in DOMAIN hard -> Hardest(q) [] q \in DOMAIN mild -> Milder(q) [] OTHER -> extras[q]]

Form(country, domains, answers, confirmed, text, team) ==
    [country |-> country, domains |-> domains, answers |-> answers, confirmed |-> confirmed,
     text |-> text, team |-> team]

Extras(level, tools, exports, months, structured) ==
    [full_tech_level |-> level, full_integrations |-> tools, full_data_exports |-> exports,
     data_history_months |-> months, data_structured |-> structured]

MCForms == {
    Form("DE", {"customer_support", "ecommerce_ops"},
         Answers(SupportMessages, SupportReach,
                 Extras("2", {"shopify"}, {"orders"}, "12", "yes_messy")), {}, TRUE, "1-5"),
    Form("NO", {"customer_support", "marketing"},
         Answers(SupportReach @@ MarketingContent, SupportMessages, <<>>), {}, FALSE, "6-25"),
    Form("UA", {"ecommerce_ops", "supply_chain"},
         Answers(ShopOrders @@ ShopOffer, Stock,
                 Extras("1", {"magento", "klaviyo"}, {"none"}, "3", "no_nothing")),
         {"STOCKOUTS_UNIVERSAL", "NO_SUCH_FLAG"}, FALSE, "26-100"),
    Form("DE", {"crm_sales", "operations_backoffice"},
         Answers(Sales @@ Documents, Office, <<>>), UNION BottleneckTags["crm_sales"], TRUE, "100+"),
    Form("UA", {"marketing", "customer_support"},
         Answers(MarketingChannels, <<>>,
                 Extras("3", {"hubspot"}, {"orders", "crm"}, "24", "yes_clean")),
         UNION BottleneckTags["customer_support"], TRUE, ""),
    Form("DE", {"supply_chain", "ecommerce_ops"},
         Answers(Supply, Stock, Extras("1", {}, {"inventory"}, "0", "no_spreadsheet")), {}, FALSE,
         "1-5"),
    Form("DE", {"customer_support"}, <<>>, {}, FALSE, "100+"),
    Form("LI", Domains, Answers(Stock @@ Office, ShopOffer, Extras("3", Platforms, DataExports, "24",
         "yes_clean")), UNION BottleneckTags["marketing"], FALSE, "6-25"),
    Form("UA", Domains, Answers(<<>>, Questions, <<>>), UNION BottleneckTags["supply_chain"], TRUE,
         "1-5") }

Ids == DOMAIN MCCatalogue

\* Similarities of a text that is about support, and of one that is about nothing; an
\* embedding file may lack what an admin has added.
MCEncodings == {
    [c \in Ids |-> IF MCCatalogue[c].domain = "customer_support" THEN 70 ELSE 45],
    [c \in DOMAIN ById(SeedCapabilities) |-> -5] }

\* The order of the catalogue, and its reverse.
No(c) == Cardinality({p \in MCProducts : p.no < Min({q.no : q \in {r \in MCProducts :
                                                                  r.capability = c}})})
Unsold == Ids \ WithProducts
MCCrosses ==
    LET order == [c \in Ids |-> IF c \in Unsold THEN 1000 ELSE No(c)]
    IN  {order, [c \in Ids |-> -order[c]]}

MCReplies == {
    [c \in Ids |-> 7],
    [c \in Ids |-> IF MCCatalogue[c].points = {} THEN 12 ELSE 3],
    "order_anomaly_alerts" :> 10 @@ "faq_dm_automation" :> NoNumber @@ "ai_support_agent" :> 1,
    "magic_wand" :> 9,
    [c \in Ids |-> NoNumber] }

MCLists == {
    <<>>,
    <<"faq_dm_automation", "magic_wand", "order_anomaly_alerts", "faq_dm_automation",
      "ai_support_agent", "demand_forecasting">>,
    <<"document_generation", "ai_crm_intelligence", "inbox_triage_us", "manychat",
      "content_generation_social", "return_management_automation", "crm_data_enrichment",
      "order_status_automation">> }

MCTexts == {{}, Ids \cup {"magic_wand"}}

=============================================================================
