--------------------------- MODULE SeedCatalogue ---------------------------
(***************************************************************************)
(* The catalogue that src/tools/build_catalog.py writes to catalog.db, and *)
(* what the two repositories (src/catalog/repository.py,                   *)
(* src/catalog/pg_repository.py) make of its rows.  A capability is kept   *)
(* with what the filters and the ranking read of it, a product with what   *)
(* the product list reads; names, descriptions and prices in words are     *)
(* left out.  Pain flags have the names of the constants of PainFlags.     *)
(***************************************************************************)
EXTENDS Integers, Sequences, TLC

\* Every path of src/catalog/pain_flags.py, by the name of its constant.
PainFlags == {
    "HIGH_VOLUME_SUPPORT", "REPETITIVE_SUPPORT", "SLOW_RESPONSE", "TICKET_OVERLOAD",
    "BRAND_REPUTATION", "NEGATIVE_REVIEWS", "MULTILINGUAL_SUPPORT", "MANUAL_RETURNS",
    "INVENTORY_TRACKING", "SLOW_ORDER_PROC", "MULTICHANNEL", "MANUAL_DESCRIPTIONS",
    "COMPETITOR_PRICING", "MARGIN_PRESSURE", "POOR_PRODUCT_DISCOVERY", "LOW_AOV",
    "MANUAL_SUBSCRIPTIONS", "STOCKOUTS_SUPPLY_CHAIN", "STOCKOUTS_UNIVERSAL",
    "OVERSTOCK", "SUPPLIER_TRACKING", "MANUAL_INVENTORY", "MANUAL_PURCHASE_ORDERS",
    "HIGH_SHIPPING_COSTS", "POOR_AD_PERFORMANCE", "MANUAL_AD_CREATIVE",
    "NO_DATA_INSIGHTS", "LOW_MARKETING_ROI", "MANUAL_CONTENT", "GENERIC_CAMPAIGNS",
    "LOW_EMAIL_ENGAGEMENT", "LOW_ORGANIC_TRAFFIC", "NO_CONTENT_STRATEGY",
    "CUSTOMER_CHURN", "LOW_REPEAT_PURCHASES", "NO_VIDEO_CONTENT", "NO_SMS_CHANNEL",
    "MANUAL_DATA_ENTRY", "MANUAL_INVOICING", "MANUAL_EXPENSES", "CASHFLOW_VISIBILITY",
    "MANUAL_ONBOARDING", "SCATTERED_KNOWLEDGE", "MANUAL_CONTRACT_REVIEW",
    "SCHEDULING_OVERHEAD", "SLOW_FOLLOWUP", "UNCLEAR_REPORTING",
    "UNPREDICTABLE_REVENUE", "NO_OUTBOUND_LEADGEN", "NO_CLV_INSIGHT" }

-----------------------------------------------------------------------------
(* Rows *)

\* A row of the table capabilities; works_without_data is 0 or 1, no gate is 0.
Row(id, domain, works, types, gate, tech, points) ==
    [id |-> id, domain |-> domain, works |-> works, types |-> types, gate |-> gate,
     tech |-> tech, points |-> points]

\* A row of the table products.  catalog.db has no columns for what an admin may add
\* in PostgreSQL: price_tier, platform_integrations, company_size_fit, setup_complexity.  The place
\* in "ORDER BY product_id" is filled in with the catalogue.
Product(id, capability, integrations, gdpr) ==
    [no |-> 0, id |-> id, capability |-> capability, integrations |-> integrations,
     gdpr |-> gdpr = 1, price |-> "", platforms |-> {}, size |-> "", setup |-> ""]

\* Python's "x or y" on a number.
Or(x, y) == IF x = 0 THEN y ELSE x

\* Capability.from_db_row: the row as SQLite has it.  "or 1" loses the 0 of
\* works_without_data.
FromDbRow(row) == [row EXCEPT !.works = Or(row.works, 1) # 0, !.tech = Or(row.tech, 1)]

\* _row_to_capability: a row of PostgreSQL, in which an admin's false stays a false.
FromPgRow(row) == [row EXCEPT !.works = row.works # 0, !.tech = Or(row.tech, 1)]

\* migrate_catalog_to_pg.py copies a row from SQLite, with the same loss.
Migrated(row) == FromPgRow([row EXCEPT !.works = Or(row.works, 1), !.tech = Or(row.tech, 1)])

\* _base_name: what comes before the first underscore.
BaseName(slug) ==
    CASE slug \in {"google_ads", "google_analytics", "google_calendar", "google_docs",
                   "google_docs_extension", "google_drive", "google_meet",
                   "google_sheets"}            -> "google"
      [] slug \in {"microsoft_teams", "microsoft_word"} -> "microsoft"
      [] slug = "browser_extension"            -> "browser"
      [] slug = "chat_widget"                  -> "chat"
      [] slug = "instagram_dm"                 -> "instagram"
      [] slug = "meta_ads"                     -> "meta"
      [] slug = "nova_poshta"                  -> "nova"
      [] slug = "royal_mail"                   -> "royal"
      [] slug = "zoho_crm"                     -> "zoho"
      [] OTHER                                 -> slug

-----------------------------------------------------------------------------
(* Capabilities, by domain, and products, by capability, in the order in     *)
(* which the repositories return them.                                       *)

CrmSalesCapabilities == <<
    Row("ai_crm_intelligence", "crm_sales", 0, {"crm", "orders"}, 3, 1, {"SLOW_FOLLOWUP",
        "UNCLEAR_REPORTING", "MANUAL_DATA_ENTRY"}),
    Row("crm_data_enrichment", "crm_sales", 0, {"crm"}, 0, 2, {"MANUAL_DATA_ENTRY"}),
    Row("meeting_transcription_crm", "crm_sales", 1, {}, 0, 1, {"SLOW_FOLLOWUP",
        "MANUAL_DATA_ENTRY"}) >>

CustomerSupportCapabilities == <<
    Row("ai_support_agent", "customer_support", 1, {}, 0, 1, {"REPETITIVE_SUPPORT", "SLOW_RESPONSE",
        "TICKET_OVERLOAD"}),
    Row("faq_dm_automation", "customer_support", 1, {}, 0, 1, {"REPETITIVE_SUPPORT",
        "SLOW_RESPONSE"}),
    Row("helpdesk_ticket_management", "customer_support", 1, {}, 0, 1, {"SLOW_RESPONSE",
        "TICKET_OVERLOAD"}) >>

EcommerceCapabilities == <<
    Row("abandoned_cart_recovery", "ecommerce_ops", 0, {"orders"}, 0, 1, {"LOW_MARKETING_ROI"}),
    Row("multichannel_order_sync", "ecommerce_ops", 1, {}, 0, 2, {"MANUAL_DATA_ENTRY"}),
    Row("order_status_automation", "ecommerce_ops", 0, {"orders"}, 0, 1, {"REPETITIVE_SUPPORT"}),
    Row("return_management_automation", "ecommerce_ops", 0, {"orders"}, 0, 1, {"MANUAL_RETURNS"}) >>

MarketingCapabilities == <<
    Row("campaign_performance_reporting", "marketing", 0, {"marketing"}, 1, 1, {"NO_DATA_INSIGHTS",
        "UNCLEAR_REPORTING"}),
    Row("content_generation_social", "marketing", 1, {}, 0, 1, {"MANUAL_CONTENT"}),
    Row("email_marketing_personalization", "marketing", 0, {"orders", "crm"}, 3, 1,
        {"LOW_MARKETING_ROI"}) >>

BackofficeCapabilities == <<
    Row("document_generation", "operations_backoffice", 1, {}, 0, 1, {"MANUAL_DATA_ENTRY",
        "MANUAL_INVOICING"}),
    Row("no_code_workflow_automation", "operations_backoffice", 1, {}, 0, 2, {"MANUAL_DATA_ENTRY",
        "MANUAL_INVOICING"}),
    Row("proposal_contract_automation", "operations_backoffice", 1, {}, 0, 1, {"SLOW_FOLLOWUP",
        "MANUAL_INVOICING"}) >>

SupplyChainCapabilities == <<
    Row("demand_forecasting", "supply_chain", 1, {}, 6, 1, {"INVENTORY_TRACKING",
        "STOCKOUTS_UNIVERSAL", "OVERSTOCK"}),
    Row("supplier_communication_assistant", "supply_chain", 1, {}, 0, 1, {"SUPPLIER_TRACKING"}) >>

ProductsAbandonedCart == <<
    Product("klaviyo_cart", "abandoned_cart_recovery", {"shopify", "woocommerce", "email"}, 1),
    Product("shopify_abandoned_checkout", "abandoned_cart_recovery", {"shopify", "email"}, 1),
    Product("hubspot_breeze", "ai_crm_intelligence", {"gmail", "outlook", "salesforce", "shopify",
        "slack", "linkedin", "google_ads", "meta_ads", "zapier", "api"}, 1),
    Product("pipedrive_ai", "ai_crm_intelligence", {"gmail", "outlook", "slack", "zapier",
        "mailchimp", "xero", "quickbooks", "linkedin", "api"}, 1),
    Product("intercom_fin", "ai_support_agent", {"email", "chat_widget", "whatsapp", "sms",
        "zendesk", "salesforce", "hubspot", "shopify", "api"}, 1) >>

ProductsCampaignPerformance == <<
    Product("databox", "campaign_performance_reporting", {"meta_ads", "google_ads", "mailchimp",
        "klaviyo", "shopify", "google_analytics"}, 1),
    Product("looker_studio", "campaign_performance_reporting", {"google_analytics", "google_ads",
        "google_sheets", "meta_ads"}, 1),
    Product("canva_magic_write", "content_generation_social", {"canva"}, 1),
    Product("chatgpt_plus_content", "content_generation_social", {"browser"}, 0),
    Product("grammarly_business", "content_generation_social", {"google_docs", "microsoft_word",
        "outlook", "gmail", "slack", "browser_extension", "salesforce"}, 1),
    Product("jasper", "content_generation_social", {"browser_extension", "api"}, 1) >>

ProductsCrmData == <<
    Product("fireflies_crm_enrichment", "crm_data_enrichment", {"salesforce", "hubspot",
        "pipedrive", "zoom", "google_meet", "microsoft_teams", "api"}, 1),
    Product("inventory_planner", "demand_forecasting", {"shopify", "woocommerce", "amazon"}, 1),
    Product("skubana_linnworks", "demand_forecasting", {"shopify", "amazon", "ebay", "woocommerce",
        "xero", "quickbooks", "royal_mail", "fedex", "api"}, 1),
    Product("stocky_shopify", "demand_forecasting", {"shopify"}, 1) >>

ProductsDocumentGeneration == <<
    Product("chatgpt_docs", "document_generation", {"browser", "google_docs_extension"}, 0),
    Product("gamma_ai", "document_generation", {"browser", "google_drive", "api"}, 1),
    Product("notion_ai", "document_generation", {"notion"}, 1),
    Product("activecampaign", "email_marketing_personalization", {"shopify", "woocommerce",
        "salesforce", "hubspot", "wordpress", "zapier", "stripe", "api"}, 1),
    Product("klaviyo_flows", "email_marketing_personalization", {"shopify", "woocommerce", "email"},
        1),
    Product("mailchimp_automations", "email_marketing_personalization", {"shopify", "woocommerce",
        "email", "api"}, 1) >>

ProductsFaqDm == <<
    Product("chatgpt_custom_gpt", "faq_dm_automation", {"api"}, 0),
    Product("manychat", "faq_dm_automation", {"instagram_dm", "whatsapp", "facebook", "shopify",
        "email"}, 1),
    Product("tidio", "faq_dm_automation", {"email", "chat_widget", "shopify", "woocommerce"}, 1),
    Product("freshdesk_ai", "helpdesk_ticket_management", {"email", "chat_widget", "whatsapp",
        "slack", "shopify", "hubspot", "salesforce", "jira", "api"}, 1),
    Product("zendesk_ai", "helpdesk_ticket_management", {"email", "chat_widget", "slack",
        "salesforce", "hubspot", "shopify", "jira", "twitter", "facebook", "api"}, 1) >>

ProductsMeetingTranscription == <<
    Product("fireflies_ai", "meeting_transcription_crm", {"zoom", "google_meet", "microsoft_teams",
        "salesforce", "hubspot", "pipedrive", "slack", "notion", "asana", "api"}, 1),
    Product("otter_ai", "meeting_transcription_crm", {"zoom", "google_meet", "microsoft_teams",
        "salesforce", "dropbox", "google_calendar", "slack"}, 1),
    Product("make_order_sync", "multichannel_order_sync", {"instagram", "facebook", "shopify",
        "woocommerce", "google_sheets"}, 1),
    Product("zapier_order_sync", "multichannel_order_sync", {"instagram", "facebook", "shopify",
        "woocommerce", "google_sheets", "email"}, 1),
    Product("n8n", "no_code_workflow_automation", {"shopify", "hubspot", "salesforce", "slack",
        "gmail", "google_sheets", "airtable", "notion", "stripe", "api", "webhook"}, 1) >>

ProductsOrderStatus == <<
    Product("keycrm_shipping_notify", "order_status_automation", {"keycrm", "nova_poshta",
        "ukrposhta"}, 1),
    Product("shopify_flow_shipping", "order_status_automation", {"shopify", "email", "sms"}, 1),
    Product("pandadoc", "proposal_contract_automation", {"salesforce", "hubspot", "pipedrive",
        "zoho_crm", "stripe", "paypal", "slack", "google_docs", "api"}, 1),
    Product("loop_returns", "return_management_automation", {"shopify"}, 1),
    Product("returngo", "return_management_automation", {"shopify"}, 1) >>

ProductsSupplierCommunication == <<
    Product("accio_alibaba", "supplier_communication_assistant", {"alibaba", "browser"}, 0),
    Product("chatgpt_supplier", "supplier_communication_assistant", {"browser"}, 1) >>

-----------------------------------------------------------------------------
SeedCapabilities ==
    CrmSalesCapabilities \o CustomerSupportCapabilities \o EcommerceCapabilities
    \o MarketingCapabilities \o BackofficeCapabilities \o SupplyChainCapabilities

SeedProducts ==
    ProductsAbandonedCart \o ProductsCampaignPerformance \o ProductsCrmData
    \o ProductsDocumentGeneration \o ProductsFaqDm \o ProductsMeetingTranscription
    \o ProductsOrderStatus \o ProductsSupplierCommunication

=============================================================================
