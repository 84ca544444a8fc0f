--------------------------- MODULE Questionnaire ---------------------------
(***************************************************************************)
(* The questionnaire (api/translator/questions) and what                   *)
(* WebFormTranslator (api/translator/web_form_translator.py) makes of a    *)
(* submitted form.  A question is a function from the values of its        *)
(* options to the pain flags they raise; texts, labels and the tier in     *)
(* which a page shows it, which the translator does not read, are left out. *)
(***************************************************************************)
EXTENDS SeedCatalogue

Domains == {"ecommerce_ops", "customer_support", "marketing", "supply_chain", "crm_sales",
            "operations_backoffice"}

-----------------------------------------------------------------------------
(* Questions *)

SupportMessages == [
    cs_message_volume |-> [low |-> {}, medium |-> {"HIGH_VOLUME_SUPPORT"},
        high |-> {"HIGH_VOLUME_SUPPORT", "REPETITIVE_SUPPORT"}],
    cs_repetitive |-> [rarely |-> {}, sometimes |-> {"REPETITIVE_SUPPORT"},
        constantly |-> {"HIGH_VOLUME_SUPPORT", "REPETITIVE_SUPPORT"}],
    cs_response_time |-> [same_day |-> {},
        one_two_days |-> {"HIGH_VOLUME_SUPPORT", "SLOW_RESPONSE"},
        longer |-> {"HIGH_VOLUME_SUPPORT", "REPETITIVE_SUPPORT", "SLOW_RESPONSE"}],
    cs_channels |-> [one_channel |-> {}, two_three |-> {"HIGH_VOLUME_SUPPORT"},
        many |-> {"HIGH_VOLUME_SUPPORT", "TICKET_OVERLOAD"}],
    cs_repetition_rate |-> ("25_50" :> {"REPETITIVE_SUPPORT"} @@ [under_25 |-> {},
        over_50 |-> {"REPETITIVE_SUPPORT", "HIGH_VOLUME_SUPPORT"}])]

SupportReach == [
    cs_languages |-> [one_language |-> {}, two_three |-> {"MULTILINGUAL_SUPPORT"},
        many |-> {"MULTILINGUAL_SUPPORT"}],
    cs_reviews |-> [monitored |-> {}, occasionally |-> {"NEGATIVE_REVIEWS"},
        not_tracked |-> {"NEGATIVE_REVIEWS", "BRAND_REPUTATION"}]]

ShopOrders == [
    ec_order_entry |-> [automated |-> {}, semi_manual |-> {"MANUAL_DATA_ENTRY"},
        fully_manual |-> {"MANUAL_DATA_ENTRY", "NO_DATA_INSIGHTS"}],
    ec_channels |-> [one |-> {}, two_three |-> {"MULTICHANNEL"},
        four_plus |-> {"MULTICHANNEL", "MANUAL_DATA_ENTRY"}],
    ec_returns |-> [automated |-> {}, partially_manual |-> {"MANUAL_RETURNS"},
        fully_manual |-> {"MANUAL_RETURNS"}],
    ec_order_volume |-> ("100_500" :> {} @@ "500_2000" :> {"MANUAL_DATA_ENTRY"} @@ [
        under_100 |-> {}, over_2000 |-> {"MANUAL_DATA_ENTRY", "SLOW_ORDER_PROC"}])]

ShopOffer == [
    ec_product_content |-> [supplied |-> {}, adapted |-> {"MANUAL_DESCRIPTIONS"},
        from_scratch |-> {"MANUAL_DESCRIPTIONS"}],
    ec_product_discovery |-> [easily |-> {}, sometimes |-> {"POOR_PRODUCT_DISCOVERY"},
        often_fail |-> {"POOR_PRODUCT_DISCOVERY"}],
    ec_pricing |-> [automated |-> {}, periodic_manual |-> {"COMPETITOR_PRICING"},
        rarely_reviewed |-> {"COMPETITOR_PRICING", "MARGIN_PRESSURE"}],
    ec_order_value |-> [automated |-> {}, occasionally |-> {"LOW_AOV"}, no |-> {"LOW_AOV"}],
    ec_subscriptions |-> [none |-> {}, yes_automated |-> {},
        yes_manual |-> {"MANUAL_SUBSCRIPTIONS"}]]

MarketingContent == [
    mkt_content |-> [use_ai_tools |-> {}, templates |-> {"MANUAL_CONTENT"},
        fully_manual |-> {"MANUAL_CONTENT"}],
    mkt_reporting |-> [automated_dashboard |-> {}, manual_weekly |-> {"NO_DATA_INSIGHTS"},
        no_tracking |-> {"NO_DATA_INSIGHTS", "POOR_AD_PERFORMANCE"}],
    mkt_paid_ads |-> [no |-> {}, yes_automated |-> {},
        yes_manual |-> {"POOR_AD_PERFORMANCE", "MANUAL_AD_CREATIVE"}],
    mkt_email_quality |-> [good |-> {}, low_engagement |-> {"LOW_EMAIL_ENGAGEMENT"},
        same_to_everyone |-> {"LOW_EMAIL_ENGAGEMENT", "GENERIC_CAMPAIGNS"}]]

MarketingChannels == [
    mkt_organic |-> [strong |-> {}, some |-> {"LOW_ORGANIC_TRAFFIC"},
        none |-> {"LOW_ORGANIC_TRAFFIC", "NO_CONTENT_STRATEGY"}],
    mkt_video |-> [regularly |-> {}, occasionally |-> {"NO_VIDEO_CONTENT"},
        never |-> {"NO_VIDEO_CONTENT"}],
    mkt_sms |-> [yes |-> {}, no_but_relevant |-> {"NO_SMS_CHANNEL"}, no |-> {"NO_SMS_CHANNEL"}],
    mkt_spend_return |-> [measured |-> {}, partly |-> {"LOW_MARKETING_ROI"},
        unknown |-> {"LOW_MARKETING_ROI"}],
    mkt_retention |-> [most_return |-> {}, some_return |-> {"LOW_REPEAT_PURCHASES"},
        rarely_return |-> {"LOW_REPEAT_PURCHASES", "CUSTOMER_CHURN"}]]

Stock == [
    sc_inventory |-> [dedicated_system |-> {},
        shopify_woocommerce |-> {"STOCKOUTS_SUPPLY_CHAIN", "INVENTORY_TRACKING"},
        excel_manual |-> {"STOCKOUTS_SUPPLY_CHAIN", "STOCKOUTS_UNIVERSAL", "INVENTORY_TRACKING", "OVERSTOCK"}],
    sc_stockouts |-> [rarely |-> {},
        few_per_year |-> {"STOCKOUTS_SUPPLY_CHAIN", "STOCKOUTS_UNIVERSAL"},
        monthly |-> {"STOCKOUTS_SUPPLY_CHAIN", "STOCKOUTS_UNIVERSAL", "OVERSTOCK"}],
    sc_suppliers |-> [platform_automated |-> {}, email_phone |-> {"SUPPLIER_TRACKING"},
        fully_manual |-> {"SUPPLIER_TRACKING", "MANUAL_DATA_ENTRY"}]]

Supply == [
    sc_demand_forecasting |-> [software |-> {}, spreadsheet_formula |-> {"STOCKOUTS_UNIVERSAL"},
        manual_review |-> {"STOCKOUTS_UNIVERSAL", "OVERSTOCK"},
        gut_feeling |-> {"STOCKOUTS_UNIVERSAL", "OVERSTOCK"}],
    sc_shipping_costs |-> [controlled |-> {}, rising |-> {"HIGH_SHIPPING_COSTS"},
        unmanaged |-> {"HIGH_SHIPPING_COSTS"}],
    sc_purchase_orders |-> [system |-> {}, spreadsheet |-> {"MANUAL_PURCHASE_ORDERS"},
        ad_hoc |-> {"MANUAL_PURCHASE_ORDERS"}]]

Sales == [
    crm_proposals |-> [automated |-> {}, templates |-> {"MANUAL_CONTENT"},
        from_scratch |-> {"MANUAL_CONTENT", "SLOW_FOLLOWUP"}],
    crm_followup |-> [automated |-> {}, semi_manual |-> {"SLOW_FOLLOWUP"},
        fully_manual |-> {"SLOW_FOLLOWUP"}],
    crm_reporting |-> [crm_dashboard |-> {},
        manual_spreadsheet |-> {"UNCLEAR_REPORTING", "NO_DATA_INSIGHTS"},
        no_tracking |-> {"UNCLEAR_REPORTING", "UNPREDICTABLE_REVENUE"}],
    crm_customer_value |-> [tracked |-> {}, roughly |-> {"NO_CLV_INSIGHT"},
        no |-> {"NO_CLV_INSIGHT"}],
    crm_lead_source |-> [outbound_running |-> {}, inbound_only |-> {"NO_OUTBOUND_LEADGEN"},
        no_process |-> {"NO_OUTBOUND_LEADGEN"}]]

Documents == [
    bo_invoicing |-> [automated |-> {}, partially_manual |-> {"MANUAL_INVOICING"},
        fully_manual |-> {"MANUAL_INVOICING", "MANUAL_CONTENT"}],
    bo_documents |-> [automated |-> {}, templates |-> {"MANUAL_CONTENT"},
        from_scratch |-> {"MANUAL_CONTENT", "MANUAL_INVOICING"}],
    bo_cashflow |-> [forecasted |-> {}, bank_balance |-> {"CASHFLOW_VISIBILITY"},
        no_view |-> {"CASHFLOW_VISIBILITY"}],
    bo_expenses |-> [automated |-> {}, partly_manual |-> {"MANUAL_EXPENSES"},
        shoebox |-> {"MANUAL_EXPENSES"}]]

Office == [
    bo_onboarding |-> [structured |-> {}, checklist |-> {"MANUAL_ONBOARDING"},
        ad_hoc |-> {"MANUAL_ONBOARDING"}],
    bo_knowledge |-> [searchable |-> {}, scattered |-> {"SCATTERED_KNOWLEDGE"},
        in_heads |-> {"SCATTERED_KNOWLEDGE"}],
    bo_contracts |-> [not_applicable |-> {}, read_manually |-> {"MANUAL_CONTRACT_REVIEW"},
        external_cost |-> {"MANUAL_CONTRACT_REVIEW"}],
    bo_scheduling |-> [self_service |-> {}, some_back_and_forth |-> {"SCHEDULING_OVERHEAD"},
        significant |-> {"SCHEDULING_OVERHEAD"}]]

-----------------------------------------------------------------------------
(* Tags a page offers instead of a text; each stands for some flags. *)

GoodsTags == [
    supply_chain |-> {{"STOCKOUTS_UNIVERSAL", "STOCKOUTS_SUPPLY_CHAIN"}, {"OVERSTOCK"},
        {"MANUAL_INVENTORY", "INVENTORY_TRACKING"}, {"SUPPLIER_TRACKING"},
        {"MANUAL_PURCHASE_ORDERS"}, {"HIGH_SHIPPING_COSTS"}},
    ecommerce_ops |-> {{"MULTICHANNEL"}, {"MANUAL_RETURNS"}, {"STOCKOUTS_UNIVERSAL"},
        {"SLOW_ORDER_PROC"}, {"POOR_PRODUCT_DISCOVERY"}, {"LOW_AOV"}, {"MANUAL_SUBSCRIPTIONS"}}]

CustomerTags == [
    customer_support |-> {{"REPETITIVE_SUPPORT"}, {"SLOW_RESPONSE"},
        {"HIGH_VOLUME_SUPPORT", "TICKET_OVERLOAD"}, {"NEGATIVE_REVIEWS"},
        {"MULTILINGUAL_SUPPORT"}},
    marketing |-> {{"POOR_AD_PERFORMANCE"}, {"MANUAL_CONTENT"}, {"LOW_ORGANIC_TRAFFIC"},
        {"LOW_EMAIL_ENGAGEMENT"}, {"CUSTOMER_CHURN", "LOW_REPEAT_PURCHASES"},
        {"NO_VIDEO_CONTENT"}, {"NO_SMS_CHANNEL"}}]

OfficeTags == [
    crm_sales |-> {{"NO_OUTBOUND_LEADGEN"}, {"NO_CLV_INSIGHT"}, {"SLOW_FOLLOWUP"},
        {"UNCLEAR_REPORTING"}, {"UNPREDICTABLE_REVENUE"}},
    operations_backoffice |-> {{"MANUAL_INVOICING"}, {"MANUAL_DATA_ENTRY"}, {"MANUAL_EXPENSES"},
        {"CASHFLOW_VISIBILITY"}, {"MANUAL_ONBOARDING"}, {"SCATTERED_KNOWLEDGE"},
        {"MANUAL_CONTRACT_REVIEW"}, {"SCHEDULING_OVERHEAD"}}]

BottleneckTags == GoodsTags @@ CustomerTags @@ OfficeTags

-----------------------------------------------------------------------------
(* Questions that fill fields of the profile *)

\* An answer to a multi_select question is the set of the values that were ticked.
Platforms == {"shopify", "woocommerce", "magento", "meta_ads", "google_ads", "mailchimp",
              "klaviyo", "hubspot", "salesforce", "xero", "quickbooks"}
DataExports == {"orders", "inventory", "crm", "support_tickets", "marketing", "none"}

StructuredData == {"yes_clean", "yes_messy", "no_spreadsheet", "no_nothing"}
HistoryMonths == "0" :> 0 @@ "3" :> 3 @@ "12" :> 12 @@ "24" :> 24
TechLevels == "1" :> 1 @@ "2" :> 2 @@ "3" :> 3

-----------------------------------------------------------------------------
(* The translator *)

Questions ==
    SupportMessages @@ SupportReach @@ ShopOrders @@ ShopOffer @@ MarketingContent
    @@ MarketingChannels @@ Stock @@ Supply @@ Sales @@ Documents @@ Office

\* What the tables above hold: a closed formula, which TLC evaluates.
ASSUME TablesAssumption ==
    /\ \A q \in DOMAIN Questions : \A o \in DOMAIN Questions[q] : Questions[q][o] \subseteq PainFlags
    /\ \A months \in DOMAIN HistoryMonths : HistoryMonths[months] \in Nat

\* _map_structured_answers: every question counts, of whatever domain and tier.
AnsweredFlags(answers) ==
    UNION {Questions[q][answers[q]] :
             q \in {p \in DOMAIN answers \cap DOMAIN Questions :
                     answers[p] \in DOMAIN Questions[p]}}

\* The value of an answer that can be read, or the default.
Field(answers, id, table, default) ==
    IF id \in DOMAIN answers /\ answers[id] \in DOMAIN table THEN table[answers[id]] ELSE default

Ticked(answers, id) == IF id \in DOMAIN answers THEN answers[id] ELSE {}

\* translate: the profile of a form.  The web form asks for no support and counts no
\* orders; a text is given or not.
Translate(form) ==
    LET exports == Ticked(form.answers, "full_data_exports") \ {"none"}
    IN  [country    |-> form.country,
         domains    |-> form.domains,
         text       |-> form.text,
         flags      |-> AnsweredFlags(form.answers) \cup (form.confirmed \cap PainFlags),
         level      |-> Field(form.answers, "full_tech_level", TechLevels, 2),
         tools      |-> Ticked(form.answers, "full_integrations"),
         exports    |-> exports,
         history    |-> Field(form.answers, "data_history_months", HistoryMonths, 0),
         structured |-> IF "data_structured" \in DOMAIN form.answers
                        THEN form.answers["data_structured"] \in {"yes_clean", "yes_messy"}
                        ELSE exports # {},
         orders     |-> 0,
         support    |-> FALSE]

=============================================================================
