--------------------------- MODULE Delivery_proofs ---------------------------
(***************************************************************************)
(* Proofs about Delivery, for every set of observed providers and every    *)
(* number of attempts: its type invariant, and that however a request is   *)
(* repeated a write is applied once and final verdicts are true.           *)
(*                                                                         *)
(* Three facts about a profile carry the argument.  ProfilesSound shows    *)
(* them of each of the providers, the Verdict lemmas draw what follows for *)
(* one answer, DeliveryInv carries it through repetitions and renewals.    *)
(***************************************************************************)
EXTENDS Delivery, TLAPS

Writes == {"create", "update"}

\* An open outcome is never ok, nor is a refusal in the envelope.
WellFormed(p) ==
  /\ p.kinds \subseteq Kinds
  /\ p.refused \in [Kinds -> Verdicts \ {"ok"}]
  /\ p.limited \in [Kinds -> Verdicts \ {"ok"}]
  /\ p.garbled \in [Kinds -> Verdicts]
  /\ p.bare \in [Kinds -> Verdicts]
  /\ "lost" \in p.again \cup p.open
  /\ "5xx" \in p.again \cup p.open
  /\ "read" \in p.kinds => "429" \in p.again \cup p.open
  /\ p.bodyFirst => \A k \in Writes : p.garbled[k] # "ok"
  /\ p.pending # "none" => p.kinds = {"read"}

\* No write whose outcome is open is called retryable.
Careful(p) ==
  /\ "lost" \notin p.again /\ "5xx" \notin p.again
  /\ \A k \in Writes : p.garbled[k] # "retryable" /\ p.bare[k] # "retryable"
  /\ p.partial => \A k \in Writes : p.refused[k] # "retryable" /\ p.limited[k] # "retryable"

Sound(name, p) ==
  /\ WellFormed(p)
  /\ name \notin RejectOutages /\ p.bodyFirst /\ "read" \in p.kinds => p.garbled["read"] = "retryable"
  /\ \/ p.kinds = {"read"}
     \/ /\ name \notin ResendOpenWrites => Careful(p)
        /\ name \notin RejectGarbled => \A k \in Writes : p.garbled[k] # "permanent"
        /\ name \notin RejectBare => \A k \in Writes : p.bare[k] # "permanent"
        /\ name \notin RejectPartial /\ p.partial
             => \A k \in Writes : p.refused[k] # "permanent" /\ p.limited[k] # "permanent"

-----------------------------------------------------------------------------
(* The profiles.                                                           *)

\* Every service's profile is well-formed, careful unless listed in ResendOpenWrites, and rejects
\* no body, no error of a tool and no outage unless listed.
LEMMA ServicesSound ==
  \A name \in DOMAIN ServiceProfile : Sound(name, ServiceProfile[name])
<1> USE DEF Sound, WellFormed, Careful, Writes, Kinds, Verdicts
<1> USE DEF ResendOpenWrites, RejectGarbled, RejectBare, RejectPartial, RejectOutages
<1> USE DEF Standard, Unreadable, Unsure, Always, OnCreate, Sends
<1>feishu. Sound("feishu", Feishu)
  BY DEF Feishu
<1>microsoft_teams. Sound("microsoft_teams", MicrosoftTeams)
  BY DEF MicrosoftTeams
<1>dingtalk. Sound("dingtalk", DingTalk)
  BY DEF DingTalk
<1>discord. Sound("discord", Discord)
  BY DEF Discord
<1>enterprise_wechat. Sound("enterprise_wechat", EnterpriseWeChat)
  BY DEF EnterpriseWeChat, DingTalk
<1>google_chat. Sound("google_chat", GoogleChat)
  BY DEF GoogleChat
<1>line. Sound("line", Line)
  BY DEF Line
<1>line_works. Sound("line_works", LineWorks)
  BY DEF LineWorks
<1>slack. Sound("slack", Slack)
  BY DEF Slack
<1>twilio. Sound("twilio", Twilio)
  BY DEF Twilio, Refusing408, Transport
<1>whatsapp. Sound("whatsapp", WhatsApp)
  BY DEF WhatsApp, Refusing408, Transport
<1>facebook_messenger. Sound("facebook_messenger", FacebookMessenger)
  BY DEF FacebookMessenger, Refusing408, Transport
<1>webhook. Sound("webhook", Webhook)
  BY DEF Webhook, Refusing408, Transport
<1>web_push. Sound("web_push", WebPush)
  BY DEF WebPush
<1>cal_com. Sound("cal_com", CalCom)
  BY DEF CalCom
<1>calendly. Sound("calendly", Calendly)
  BY DEF Calendly
<1>google_calendar. Sound("google_calendar", GoogleCalendar)
  BY DEF GoogleCalendar
<1>microsoft_booking. Sound("microsoft_booking", MicrosoftBooking)
  BY DEF MicrosoftBooking
<1>asana. Sound("asana", Asana)
  BY DEF Asana
<1>jira. Sound("jira", Jira)
  BY DEF Jira
<1>linear. Sound("linear", Linear)
  BY DEF Linear
<1>monday. Sound("monday", Monday)
  BY DEF Monday
<1>netsuite. Sound("netsuite", NetSuite)
  BY DEF NetSuite
<1>odoo. Sound("odoo", Odoo)
  BY DEF Odoo
<1>sap_business_one. Sound("sap_business_one", SAPBusinessOne)
  BY DEF SAPBusinessOne
<1>shopify. Sound("shopify", Shopify)
  BY DEF Shopify
<1>shopify_fulfillment. Sound("shopify_fulfillment", ShopifyFulfillment)
  BY DEF ShopifyFulfillment
<1>dhl. Sound("dhl", DHL)
  BY DEF DHL, Transport
<1>ups. Sound("ups", UPS)
  BY DEF UPS, Transport
<1>fedex. Sound("fedex", FedEx)
  BY DEF FedEx, Transport
<1>alipay. Sound("alipay", Alipay)
  BY DEF Alipay, Refusing408, Transport
<1>wechat_pay. Sound("wechat_pay", WeChatPay)
  BY DEF WeChatPay, Refusing408, Transport
<1>stripe. Sound("stripe", Stripe)
  BY DEF Stripe, BodyFirst
<1>quickbooks. Sound("quickbooks", QuickBooks)
  BY DEF QuickBooks
<1>freee. Sound("freee", Freee)
  BY DEF Freee
<1>money_forward. Sound("money_forward", MoneyForward)
  BY DEF MoneyForward, Freee
<1>persona. Sound("persona", Persona)
  BY DEF Persona
<1>openai. Sound("openai", OpenAI)
  BY DEF OpenAI
<1>google. Sound("google", GoogleAccount)
  BY DEF GoogleAccount, Transport
<1>microsoft. Sound("microsoft", MicrosoftAccount)
  BY DEF MicrosoftAccount, Transport
<1>s3. Sound("s3", S3)
  BY DEF S3
<1>zendesk. Sound("zendesk", Zendesk)
  BY DEF Zendesk, Refusing408, Transport
<1>confluence. Sound("confluence", Confluence)
  BY DEF Confluence, BodyFirst
<1>help_scout_docs. Sound("help_scout_docs", HelpScoutDocs)
  BY DEF HelpScoutDocs, BodyFirst
<1>intercom_articles. Sound("intercom_articles", IntercomArticles)
  BY DEF IntercomArticles, BodyFirst
<1>notion_docs. Sound("notion_docs", NotionDocs)
  BY DEF NotionDocs, BodyFirst
<1>readme. Sound("readme", ReadMe)
  BY DEF ReadMe, BodyFirst
<1>zendesk_guide. Sound("zendesk_guide", ZendeskGuide)
  BY DEF ZendeskGuide, BodyFirst
<1>google_play. Sound("google_play", GooglePlayConsole)
  BY DEF GooglePlayConsole, BodyFirst
<1>datadog_metrics. Sound("datadog_metrics", DatadogMetrics)
  BY DEF DatadogMetrics, BodyFirst
<1>posthog. Sound("posthog", PostHog)
  BY DEF PostHog, BodyFirst
<1>adobe_sign. Sound("adobe_sign", AdobeSign)
  BY DEF AdobeSign, Envelopes, Transport
<1>docusign. Sound("docusign", DocuSign)
  BY DEF DocuSign, Envelopes, Transport
<1>signnow. Sound("signnow", SignNow)
  BY DEF SignNow, Envelopes, Transport
<1>fadada. Sound("fadada", Fadada)
  BY DEF Fadada, Envelopes, Transport
<1>knowledge_base. Sound("knowledge_base", KnowledgeBase)
  BY DEF KnowledgeBase
<1>sf_express. Sound("sf_express", SFExpress)
  BY DEF SFExpress, Transport
<1>smtp. Sound("smtp", SMTP)
  BY DEF SMTP, Message, Transport, Statuses
<1>mqtt. Sound("mqtt", MQTT)
  BY DEF MQTT, Message, Transport, Statuses
<1>expense_ocr. Sound("expense_ocr", ExpenseOCR)
  BY DEF ExpenseOCR, Transport
<1>web. Sound("web", WebSearch)
  BY DEF WebSearch, Transport
<1>composio. Sound("composio", Composio)
  BY DEF Composio, Transport
<1>mcp. Sound("mcp", MCP)
  BY DEF MCP, Transport, Statuses
<1> HIDE DEF Sound
<1>group1. \A name \in {"feishu", "microsoft_teams", "dingtalk", "discord",
           "enterprise_wechat", "google_chat", "line", "line_works", "slack", "twilio",
           "whatsapp"} :
           Sound(name, ServiceProfile[name])
  BY <1>feishu, <1>microsoft_teams, <1>dingtalk, <1>discord, <1>enterprise_wechat,
     <1>google_chat, <1>line, <1>line_works, <1>slack, <1>twilio, <1>whatsapp DEF ServiceProfile
<1>group2. \A name \in {"facebook_messenger", "webhook", "web_push", "cal_com", "calendly",
           "google_calendar", "microsoft_booking", "asana", "jira", "linear", "monday"} :
           Sound(name, ServiceProfile[name])
  BY <1>facebook_messenger, <1>webhook, <1>web_push, <1>cal_com, <1>calendly,
     <1>google_calendar, <1>microsoft_booking, <1>asana, <1>jira, <1>linear, <1>monday DEF ServiceProfile
<1>group3. \A name \in {"netsuite", "odoo", "sap_business_one", "shopify",
           "shopify_fulfillment", "dhl", "ups", "fedex", "alipay", "wechat_pay", "stripe"} :
           Sound(name, ServiceProfile[name])
  BY <1>netsuite, <1>odoo, <1>sap_business_one, <1>shopify, <1>shopify_fulfillment, <1>dhl,
     <1>ups, <1>fedex, <1>alipay, <1>wechat_pay, <1>stripe DEF ServiceProfile
<1>group4. \A name \in {"quickbooks", "freee", "money_forward", "persona", "openai", "google",
           "microsoft", "s3", "zendesk", "confluence", "help_scout_docs"} :
           Sound(name, ServiceProfile[name])
  BY <1>quickbooks, <1>freee, <1>money_forward, <1>persona, <1>openai, <1>google, <1>microsoft,
     <1>s3, <1>zendesk, <1>confluence, <1>help_scout_docs DEF ServiceProfile
<1>group5. \A name \in {"intercom_articles", "notion_docs", "readme", "zendesk_guide",
           "google_play", "datadog_metrics", "posthog", "adobe_sign", "docusign", "signnow",
           "fadada"} :
           Sound(name, ServiceProfile[name])
  BY <1>intercom_articles, <1>notion_docs, <1>readme, <1>zendesk_guide, <1>google_play,
     <1>datadog_metrics, <1>posthog, <1>adobe_sign, <1>docusign, <1>signnow, <1>fadada DEF ServiceProfile
<1>group6. \A name \in {"knowledge_base", "sf_express", "smtp", "mqtt", "expense_ocr", "web",
           "composio", "mcp"} :
           Sound(name, ServiceProfile[name])
  BY <1>knowledge_base, <1>sf_express, <1>smtp, <1>mqtt, <1>expense_ocr, <1>web, <1>composio,
     <1>mcp DEF ServiceProfile
<1> QED
  BY <1>group1, <1>group2, <1>group3, <1>group4, <1>group5, <1>group6 DEF ServiceProfile

\* So is every reader's.
LEMMA ReadersSound ==
  \A name \in DOMAIN ReaderProfile : Sound(name, ReaderProfile[name])
<1> USE DEF Sound, WellFormed, Careful, Writes, Kinds, Verdicts
<1> USE DEF ResendOpenWrites, RejectGarbled, RejectBare, RejectPartial, RejectOutages
<1> USE DEF Standard, Unreadable, Unsure, Always, OnCreate
<1>meta_ads. Sound("meta_ads", MetaAds)
  BY DEF MetaAds, EagerReader, Reader
<1>surveymonkey. Sound("surveymonkey", SurveyMonkey)
  BY DEF SurveyMonkey, EagerReader, Reader
<1>trustpilot. Sound("trustpilot", Trustpilot)
  BY DEF Trustpilot, EagerReader, Reader
<1>typeform. Sound("typeform", Typeform)
  BY DEF Typeform, EagerReader, Reader
<1>delighted. Sound("delighted", Delighted)
  BY DEF Delighted, Reader
<1>delighted_responses. Sound("delighted_responses", DelightedResponses)
  BY DEF DelightedResponses, Reader
<1>moodle. Sound("moodle", Moodle)
  BY DEF Moodle, EagerReader, Reader
<1>talentlms. Sound("talentlms", TalentLMS)
  BY DEF TalentLMS, EagerReader, Reader
<1>gitbook. Sound("gitbook", GitBook)
  BY DEF GitBook, EagerReader, Reader
<1>zoom_webinar. Sound("zoom_webinar", ZoomWebinar)
  BY DEF ZoomWebinar, Reader
<1>plaid. Sound("plaid", Plaid)
  BY DEF Plaid, Reader
<1>etsy. Sound("etsy", Etsy)
  BY DEF Etsy, Reader
<1>freightos. Sound("freightos", Freightos)
  BY DEF Freightos, Reader
<1>authorized_carrier_gateway. Sound("authorized_carrier_gateway", AuthorizedCarrierGateway)
  BY DEF AuthorizedCarrierGateway, Reader
<1>nominatim. Sound("nominatim", Nominatim)
  BY DEF Nominatim, Reader
<1>nominatim_reverse. Sound("nominatim_reverse", NominatimReverse)
  BY DEF NominatimReverse, Reader
<1>brazil_portal_unico. Sound("brazil_portal_unico", PortalUnico)
  BY DEF PortalUnico, Reader
<1>china_hs_bianma. Sound("china_hs_bianma", HSBianma)
  BY DEF HSBianma, Reader
<1>comex_stat. Sound("comex_stat", ComexStat)
  BY DEF ComexStat, Reader
<1>prometheus. Sound("prometheus", Prometheus)
  BY DEF Prometheus, EagerReader, Reader
<1>mysql. Sound("mysql", MySQL)
  BY DEF MySQL, Database, Reader, Statuses
<1>postgres. Sound("postgres", Postgres)
  BY DEF Postgres, Database, Reader, Statuses
<1>sqlserver. Sound("sqlserver", SQLServer)
  BY DEF SQLServer, Database, Reader, Statuses
<1>snowflake. Sound("snowflake", Snowflake)
  BY DEF Snowflake, Warehouse, EagerReader, Reader
<1>bigquery. Sound("bigquery", BigQuery)
  BY DEF BigQuery, Warehouse, EagerReader, Reader
<1>open_meteo. Sound("open_meteo", OpenMeteo)
  BY DEF OpenMeteo, Reader
<1>holidays_jp. Sound("holidays_jp", HolidaysJP)
  BY DEF HolidaysJP, Reader
<1>oidc. Sound("oidc", OIDC)
  BY DEF OIDC, Reader, Statuses
<1> HIDE DEF Sound
<1>group1. \A name \in {"meta_ads", "surveymonkey", "trustpilot", "typeform", "delighted",
           "delighted_responses", "moodle", "talentlms", "gitbook", "zoom_webinar", "plaid"} :
           Sound(name, ReaderProfile[name])
  BY <1>meta_ads, <1>surveymonkey, <1>trustpilot, <1>typeform, <1>delighted,
     <1>delighted_responses, <1>moodle, <1>talentlms, <1>gitbook, <1>zoom_webinar, <1>plaid DEF ReaderProfile
<1>group2. \A name \in {"etsy", "freightos", "authorized_carrier_gateway", "nominatim",
           "nominatim_reverse", "brazil_portal_unico", "china_hs_bianma", "comex_stat",
           "prometheus", "mysql", "postgres"} :
           Sound(name, ReaderProfile[name])
  BY <1>etsy, <1>freightos, <1>authorized_carrier_gateway, <1>nominatim, <1>nominatim_reverse,
     <1>brazil_portal_unico, <1>china_hs_bianma, <1>comex_stat, <1>prometheus, <1>mysql,
     <1>postgres DEF ReaderProfile
<1>group3. \A name \in {"sqlserver", "snowflake", "bigquery", "open_meteo", "holidays_jp", "oidc"} :
           Sound(name, ReaderProfile[name])
  BY <1>sqlserver, <1>snowflake, <1>bigquery, <1>open_meteo, <1>holidays_jp, <1>oidc DEF ReaderProfile
<1> QED
  BY <1>group1, <1>group2, <1>group3 DEF ReaderProfile

\* What Sound says holds of every provider's profile.
LEMMA ProfilesSound == \A name \in Providers : Sound(name, Profile[name])
  BY ServicesSound, ReadersSound DEF Providers, Profile

-----------------------------------------------------------------------------
(* One answer.                                                             *)

\* A verdict is one of the four.
LEMMA VerdictType ==
  ASSUME NEW p, WellFormed(p), NEW k \in Kinds, NEW r \in Reply
  PROVE  Verdict(p, k, r) \in Verdicts
  BY DEF WellFormed, Verdict, StatusVerdict, BodyVerdict, Undecodable, Unsure, Reply,
         Statuses, Bodies, Verdicts, Kinds

\* A write that is called done took effect.
LEMMA OkTookEffect ==
  ASSUME NEW p, WellFormed(p), NEW k \in Writes, NEW r \in Reply, Verdict(p, k, r) = "ok"
  PROVE  TookEffect(r)
  BY DEF WellFormed, Verdict, StatusVerdict, BodyVerdict, Undecodable, Unsure, Reply,
         Statuses, Bodies, Verdicts, Kinds, Writes, TookEffect

\* A careful provider calls retryable only a write that did not happen.
LEMMA RetryableDidNotHappen ==
  ASSUME NEW p, WellFormed(p), Careful(p), NEW k \in Writes, NEW r \in Reply,
         Verdict(p, k, r) = "retryable", p.pending = "none"
  PROVE  ~MayHaveTakenEffect(p, r)
<1>1. k \in Kinds /\ Unsure[k] = "uncertain"
  BY DEF Writes, Kinds, Unsure
<1>2. CASE r.status = "2xx"
  <2>1. BodyVerdict(p, k, r.body) = "retryable"
    BY <1>2 DEF Verdict
  <2>2. p.garbled[k] # "retryable" /\ p.bare[k] # "retryable"
    BY DEF Careful
  <2>3. r.body \in {"refused", "limited"}
    BY <2>1, <2>2 DEF BodyVerdict
  <2>4. p.partial => p.refused[k] # "retryable" /\ p.limited[k] # "retryable"
    BY DEF Careful
  <2>5. ~p.partial
    BY <2>1, <2>3, <2>4 DEF BodyVerdict, Undecodable
  <2> QED
    BY <1>2, <2>3, <2>5 DEF MayHaveTakenEffect, TookEffect
<1>3. CASE r.status # "2xx"
  <2>1. CASE r.status \in {"lost", "5xx"}
    <3>1. StatusVerdict(p, k, r.status) # "retryable"
      BY <1>1, <2>1 DEF StatusVerdict, Careful
    <3>2. p.garbled[k] # "retryable"
      BY DEF Careful
    <3> QED
      BY <2>1, <3>1, <3>2 DEF Verdict
  <2>2. CASE r.status \notin {"lost", "5xx"}
    BY <1>3, <2>2 DEF MayHaveTakenEffect, TookEffect
  <2> QED
    BY <2>1, <2>2
<1> QED
  BY <1>2, <1>3

\* A write that may have happened is called permanently failed only for its body: one that does
\* not decode, one that lacks a field, or the error of a tool.
LEMMA PermanentMisread ==
  ASSUME NEW p, WellFormed(p), NEW k \in Writes, NEW r \in Reply,
         Verdict(p, k, r) = "permanent", MayHaveTakenEffect(p, r)
  PROVE  \/ r.body \in {"garbled", "blank"} /\ p.garbled[k] = "permanent"
         \/ r.body \in {"bare", "blank"} /\ p.bare[k] = "permanent"
         \/ /\ p.partial /\ r.body \in {"refused", "limited"}
            /\ p.refused[k] = "permanent" \/ p.limited[k] = "permanent"
<1>1. k \in Kinds /\ Unsure[k] = "uncertain"
  BY DEF Writes, Kinds, Unsure
<1>2. CASE r.status = "2xx"
  <2>1. BodyVerdict(p, k, r.body) = "permanent"
    BY <1>2 DEF Verdict
  <2>2. r.body \notin {"refused", "limited"} \/ p.partial
    BY <1>2 DEF MayHaveTakenEffect, TookEffect
  <2> QED
    BY <2>1, <2>2 DEF BodyVerdict, Undecodable
<1>3. CASE r.status # "2xx"
  <2>1. r.status \in {"lost", "5xx"}
    BY <1>3 DEF MayHaveTakenEffect, TookEffect
  <2>2. "lost" \in p.again \cup p.open /\ "5xx" \in p.again \cup p.open
    BY DEF WellFormed
  <2>3. StatusVerdict(p, k, r.status) # "permanent"
    BY <1>1, <2>1, <2>2 DEF StatusVerdict
  <2>4. Undecodable(p, r.body) /\ p.garbled[k] = "permanent"
    BY <1>3, <2>1, <2>3 DEF Verdict
  <2> QED
    BY <2>4 DEF Undecodable
<1> QED
  BY <1>2, <1>3

-----------------------------------------------------------------------------
(* The machine.                                                            *)

\* An attempt in flight has added no effect yet; one that is answered has added one only
\* if the answer allows for it.
AttemptInv ==
  /\ stage = "sent" => effects < attempts
  /\ stage = "answered" => 0 < attempts
  /\ stage = "answered" /\ ~MayHaveTakenEffect(profile, reply) => effects < attempts
  /\ stage # "idle" => verdict = "none"
  /\ kind # "read" /\ stage = "answered" /\ TookEffect(reply) => 0 < effects

\* A write of a careful provider that may be sent again has not happened.
CarefulInv ==
  kind # "read" /\ provider \notin ResendOpenWrites =>
    /\ effects <= 1
    /\ stage = "sent" => effects = 0
    /\ stage = "answered" /\ ~MayHaveTakenEffect(profile, reply) => effects = 0
    /\ stage = "idle" /\ verdict \in {"none", "retryable"} => effects = 0

AbsorbedInv == Absorbed => effects <= 1

DeliveryInv == TypeOK /\ AttemptInv /\ CarefulInv /\ AbsorbedInv /\ VerdictTruthful

\* What is known of the observed provider.
LEMMA ProfileKnown ==
  ASSUME TypeOK
  PROVE  /\ Sound(provider, profile) /\ kind \in Kinds
         /\ WellFormed(profile)
         /\ kind # "read" => kind \in Writes
<1>1. provider \in Providers
  BY ObservedAssumption DEF TypeOK
<1>2. Sound(provider, profile)
  BY <1>1, ProfilesSound DEF profile
<1>3. WellFormed(profile)
  BY <1>2 DEF Sound
<1>4. kind \in Kinds
  BY <1>3 DEF WellFormed, TypeOK
<1> QED
  BY <1>2, <1>3, <1>4 DEF Kinds, Writes

\* The initial states satisfy the invariant.
LEMMA InitDelivery == Init => DeliveryInv
<1> SUFFICES ASSUME Init
             PROVE  DeliveryInv
  OBVIOUS
<1>1. NoReply \in Reply
  BY DEF NoReply, Reply, Statuses, Bodies
<1>2. TypeOK
  <2>1. renewed \in BOOLEAN /\ verdict \in Verdicts \cup {"none"}
    BY DEF Init
  <2>2. attempts \in 0..MaxAttempts /\ effects \in 0..attempts
    BY AttemptsAssumption DEF Init
  <2> QED
    BY <1>1, <2>1, <2>2 DEF Init, TypeOK
<1>3. AttemptInv /\ CarefulInv /\ AbsorbedInv /\ VerdictTruthful
  BY DEF Init, AttemptInv, CarefulInv, AbsorbedInv, VerdictTruthful
<1> QED
  BY <1>2, <1>3 DEF DeliveryInv

\* A conclusion keeps the invariant, if its verdict is sound.
LEMMA ConcludeKeeps ==
  ASSUME DeliveryInv, NEW result \in Verdicts, Conclude(result),
         kind # "read" /\ result = "ok" => 0 < effects,
         kind # "read" /\ result = "permanent" /\ 0 < effects
            => Misread \/ provider \in ResendOpenWrites,
         kind # "read" /\ result = "retryable" /\ provider \notin ResendOpenWrites
            => effects = 0
  PROVE  DeliveryInv'
  BY DEF DeliveryInv, TypeOK, AttemptInv, CarefulInv, AbsorbedInv, VerdictTruthful, Misread,
         Conclude, operation, Absorbed, profile, Verdicts, MayHaveTakenEffect, TookEffect

\* Every step keeps the invariant.
LEMMA NextDelivery == DeliveryInv /\ [Next]_vars => DeliveryInv'
<1> SUFFICES ASSUME DeliveryInv, [Next]_vars
             PROVE  DeliveryInv'
  OBVIOUS
<1>0. /\ Sound(provider, profile) /\ kind \in Kinds /\ WellFormed(profile)
      /\ kind # "read" => kind \in Writes
  BY ProfileKnown DEF DeliveryInv
<1>1. CASE Attempt
  <2>1. TypeOK'
    <3>1. renewed' \in BOOLEAN /\ verdict' = "none"
      BY <1>1 DEF Attempt
    <3>2. attempts' \in 0..MaxAttempts /\ effects' \in 0..attempts'
      BY <1>1, AttemptsAssumption DEF Attempt, Starts, DeliveryInv, TypeOK
    <3> QED
      BY <1>1, <3>1, <3>2 DEF Attempt, DeliveryInv, TypeOK, operation, profile
  <2>2. AttemptInv' /\ VerdictTruthful'
    BY <1>1 DEF Attempt, Starts, DeliveryInv, TypeOK, AttemptInv, VerdictTruthful, operation
  <2>3. CarefulInv' /\ AbsorbedInv'
    BY <1>1 DEF Attempt, Starts, DeliveryInv, CarefulInv, AbsorbedInv, operation, Absorbed, profile
  <2> QED
    BY <2>1, <2>2, <2>3 DEF DeliveryInv
<1>2. CASE TokenFails
  <2>1. PICK result \in {"retryable", "permanent"} : Conclude(result)
    BY <1>2 DEF TokenFails
  <2>2. kind # "read" /\ provider \notin ResendOpenWrites => effects = 0
    BY <1>2 DEF TokenFails, DeliveryInv, CarefulInv
  <2>3. effects \in Nat
    BY DEF DeliveryInv, TypeOK
  <2> QED
    BY <2>1, <2>2, <2>3, ConcludeKeeps DEF Verdicts
<1>3. ASSUME NEW r \in Reply, Answer(r)
      PROVE  DeliveryInv'
  <2>1. MayHaveTakenEffect(profile, r) \/ ~TookEffect(r)
    BY DEF MayHaveTakenEffect
  <2>2. CASE MayHaveTakenEffect(profile, r) /\ TakesEffect
    <3>1. TypeOK'
      BY <1>0, <1>3, <2>2 DEF Answer, TakesEffect, DeliveryInv, TypeOK, AttemptInv, operation,
         profile
    <3>2. AttemptInv' /\ VerdictTruthful'
      BY <1>0, <1>3, <2>2 DEF Answer, TakesEffect, DeliveryInv, TypeOK, AttemptInv,
         VerdictTruthful, operation, profile
    <3>3. CarefulInv' /\ AbsorbedInv'
      BY <1>0, <1>3, <2>2 DEF Answer, TakesEffect, DeliveryInv, TypeOK, CarefulInv,
         AbsorbedInv, operation, profile, Absorbed
    <3> QED
      BY <3>1, <3>2, <3>3 DEF DeliveryInv
  <2>3. CASE ~TookEffect(r) /\ UNCHANGED effects
    BY <1>3, <2>3 DEF Answer, DeliveryInv, TypeOK, AttemptInv, CarefulInv, AbsorbedInv,
       VerdictTruthful, operation, profile, Absorbed
  <2> QED
    BY <1>3, <2>2, <2>3 DEF Answer
<1>4. CASE Renew
  <2>1. ~MayHaveTakenEffect(profile, reply)
    BY <1>4 DEF Renew, Renews, DeliveryInv, AttemptInv, MayHaveTakenEffect, TookEffect
  <2>2. kind # "read" /\ provider \notin ResendOpenWrites => effects = 0
    BY <1>4, <2>1 DEF Renew, DeliveryInv, CarefulInv
  <2>3. CASE stage' = "sent" /\ renewed' = TRUE
                /\ UNCHANGED <<operation, attempts, effects, reply, verdict>>
    BY <1>4, <2>1, <2>2, <2>3 DEF Renew, DeliveryInv, TypeOK, AttemptInv, CarefulInv,
       AbsorbedInv, VerdictTruthful, Misread, operation, profile, Absorbed
  <2>4. ASSUME NEW result \in {"retryable", "permanent"}, Conclude(result)
        PROVE  DeliveryInv'
    <3>1. effects \in Nat
      BY DEF DeliveryInv, TypeOK
    <3> QED
      BY <2>2, <2>4, <3>1, ConcludeKeeps DEF Verdicts
  <2> QED
    BY <1>4, <2>3, <2>4 DEF Renew
<1>5. CASE Judge
  <2> DEFINE result == Verdict(profile, kind, reply)
  <2>1. reply \in Reply /\ stage = "answered" /\ effects \in Nat
    BY <1>5 DEF Judge, DeliveryInv, TypeOK
  <2>2. result \in Verdicts
    BY <1>0, <2>1, VerdictType
  <2>3. kind # "read" /\ result = "ok" => 0 < effects
    BY <1>0, <2>1, OkTookEffect DEF DeliveryInv, AttemptInv
  <2>4. kind # "read" /\ result = "retryable" /\ provider \notin ResendOpenWrites
          => effects = 0
    <3>1. SUFFICES ASSUME kind # "read", result = "retryable", provider \notin ResendOpenWrites
                   PROVE  effects = 0
      OBVIOUS
    <3>2. kind \in Writes /\ profile.kinds # {"read"}
      BY <1>0, <3>1 DEF DeliveryInv, TypeOK
    <3>3. Careful(profile) /\ profile.pending = "none"
      BY <1>0, <3>1, <3>2 DEF Sound, WellFormed
    <3>4. ~MayHaveTakenEffect(profile, reply)
      BY <1>0, <2>1, <3>1, <3>2, <3>3, RetryableDidNotHappen
    <3> QED
      BY <2>1, <3>1, <3>4 DEF DeliveryInv, CarefulInv
  <2>5. kind # "read" /\ result = "permanent" /\ 0 < effects
          => Misread \/ provider \in ResendOpenWrites
    <3>1. SUFFICES ASSUME kind # "read", result = "permanent", 0 < effects,
                          provider \notin ResendOpenWrites
                   PROVE  Misread
      OBVIOUS
    <3>2. MayHaveTakenEffect(profile, reply)
      BY <2>1, <3>1 DEF DeliveryInv, CarefulInv
    <3>3. \/ reply.body \in {"garbled", "blank"} /\ profile.garbled[kind] = "permanent"
          \/ reply.body \in {"bare", "blank"} /\ profile.bare[kind] = "permanent"
          \/ /\ profile.partial /\ reply.body \in {"refused", "limited"}
             /\ profile.refused[kind] = "permanent" \/ profile.limited[kind] = "permanent"
      BY <1>0, <2>1, <3>1, <3>2, PermanentMisread
    <3>4. profile.kinds # {"read"} /\ kind \in Writes
      BY <1>0, <3>1 DEF DeliveryInv, TypeOK
    <3> QED
      BY <1>0, <3>1, <3>3, <3>4 DEF Sound, Misread
  <2> QED
    BY <1>5, <2>2, <2>3, <2>4, <2>5, ConcludeKeeps DEF Judge
<1>7. CASE Reject
  <2>1. TypeOK'
    <3>1. attempts' \in 0..MaxAttempts /\ effects' \in 0..attempts'
      BY <1>7, AttemptsAssumption DEF Reject, Starts, DeliveryInv, TypeOK
    <3> QED
      BY <1>7, <3>1 DEF Reject, DeliveryInv, TypeOK, operation, profile, Verdicts
  <2>2. AttemptInv'
    BY <1>7 DEF Reject, Starts, DeliveryInv, TypeOK, AttemptInv, operation, profile
  <2>3. VerdictTruthful' /\ CarefulInv' /\ AbsorbedInv'
    BY <1>7 DEF Reject, Starts, DeliveryInv, TypeOK, VerdictTruthful, CarefulInv, AbsorbedInv,
       operation, profile, Absorbed
  <2> QED
    BY <2>1, <2>2, <2>3 DEF DeliveryInv
<1>8. CASE Poll
  <2>1. kind = "read" /\ effects = 0 /\ stage = "answered" /\ 0 < attempts
    BY <1>0, <1>8 DEF Poll, Polls, WellFormed, DeliveryInv, TypeOK, AttemptInv
  <2>2. CASE stage' = "sent" /\ UNCHANGED <<operation, attempts, effects, reply, renewed, verdict>>
    BY <2>1, <2>2 DEF DeliveryInv, TypeOK, AttemptInv, CarefulInv, AbsorbedInv,
       VerdictTruthful, operation, profile, Absorbed
  <2>3. CASE Conclude("unclassified")
    BY <2>1, <2>3 DEF Conclude, DeliveryInv, TypeOK, AttemptInv, CarefulInv, AbsorbedInv,
       VerdictTruthful, operation, profile, Absorbed
  <2> QED
    BY <1>8, <2>2, <2>3 DEF Poll
<1>6. CASE UNCHANGED vars
  BY <1>6 DEF vars, operation, DeliveryInv, TypeOK, AttemptInv, CarefulInv, AbsorbedInv,
     VerdictTruthful, Misread, profile, Absorbed
<1> QED
  BY <1>1, <1>2, <1>3, <1>4, <1>5, <1>6, <1>7, <1>8 DEF Next

\* The invariant holds throughout.
THEOREM DeliveryInvariant == Spec => []DeliveryInv
  BY InitDelivery, NextDelivery, PTL DEF Spec

\* Every variable keeps its type; an attempt has at most one effect even when executeWithRefresh
\* sends its request a second time.
THEOREM TypeCorrect == Spec => []TypeOK
<1>1. DeliveryInv => TypeOK
  BY DEF DeliveryInv
<1> QED
  BY <1>1, DeliveryInvariant, PTL

\* What WriteAppliedOnce says follows from what is known of profiles and keys.
LEMMA InvImpliesOnce == DeliveryInv => WriteAppliedOnce
<1> SUFFICES ASSUME DeliveryInv, effects > 1
             PROVE  provider \in ResendOpenWrites \ {"stripe"} /\ kind = "create"
  BY DEF WriteAppliedOnce
<1>1. effects \in Nat /\ kind # "read"
  BY DEF DeliveryInv, TypeOK
<1>2. provider \in ResendOpenWrites
  BY <1>1 DEF DeliveryInv, CarefulInv
<1>3. ~Absorbed
  BY <1>1 DEF DeliveryInv, AbsorbedInv
<1>4. kind = "create"
  BY <1>1, <1>3, ProfileKnown DEF DeliveryInv, Writes, Absorbed
<1>5. "create" \in Profile["stripe"].keyed
  BY DEF Profile, Providers, ServiceProfile, ReaderProfile, Stripe, BodyFirst, Standard
<1> QED
  BY <1>2, <1>3, <1>4, <1>5 DEF Absorbed, profile

\* However often Runtime repeats what a provider calls retryable, a write happens once, but for
\* the creations of the listed providers.
THEOREM AppliedOnce == Spec => []WriteAppliedOnce
  BY InvImpliesOnce, DeliveryInvariant, PTL

\* A write that is called done happened, one called permanently failed did not, but for the
\* bodies and providers listed.
THEOREM Truthful == Spec => []VerdictTruthful
<1>1. DeliveryInv => VerdictTruthful
  BY DEF DeliveryInv
<1> QED
  BY <1>1, DeliveryInvariant, PTL

\* A read's outage is called retryable, but for what a listed provider cannot decode.
LEMMA OutageVerdict ==
  ASSUME NEW name, NEW p, Sound(name, p), "read" \in p.kinds, NEW r \in Reply,
         r.status \in {"lost", "429", "5xx"}
  PROVE  \/ Verdict(p, "read", r) = "retryable"
         \/ name \in RejectOutages /\ r.body \in {"garbled", "blank"}
<1>1. "lost" \in p.again \cup p.open /\ "5xx" \in p.again \cup p.open /\ "429" \in p.again \cup p.open
  BY DEF Sound, WellFormed
<1>2. StatusVerdict(p, "read", r.status) = "retryable"
  BY <1>1 DEF StatusVerdict, Unsure, Kinds
<1>3. name \notin RejectOutages /\ p.bodyFirst => p.garbled["read"] = "retryable"
  BY DEF Sound
<1>4. CASE p.bodyFirst /\ Undecodable(p, r.body) /\ r.status # "lost"
  BY <1>3, <1>4 DEF Verdict, Undecodable
<1>5. CASE ~(p.bodyFirst /\ Undecodable(p, r.body) /\ r.status # "lost")
  BY <1>2, <1>5 DEF Verdict
<1> QED
  BY <1>4, <1>5

\* An outage never makes a read final, but for the providers that look at the body first.
THEOREM OutagesPass == Spec => OutageRetryable
<1>1. ASSUME DeliveryInv, [Next]_vars, stage = "answered", stage' = "idle", kind = "read",
             reply.status \in {"lost", "429", "5xx"}
      PROVE  \/ verdict' = "retryable"
             \/ provider \in RejectOutages /\ reply.body \in {"garbled", "blank"}
  <2>1. Judge
    BY <1>1 DEF Next, Attempt, Reject, Starts, TokenFails, Conclude, Answer, Renew, Renews, Poll,
       Polls, vars
  <2>2. Sound(provider, profile) /\ "read" \in profile.kinds /\ reply \in Reply
    BY <1>1, ProfileKnown DEF DeliveryInv, TypeOK
  <2> QED
    BY <1>1, <2>1, <2>2, OutageVerdict DEF Judge, Conclude
<1>2. DeliveryInv /\ [Next]_vars =>
        [stage = "answered" /\ stage' = "idle" /\ kind = "read" /\ reply.status \in {"lost", "429", "5xx"}
           => \/ verdict' = "retryable"
              \/ provider \in RejectOutages /\ reply.body \in {"garbled", "blank"}]_vars
  BY <1>1
<1> QED
  BY <1>2, DeliveryInvariant, PTL DEF Spec, OutageRetryable

-----------------------------------------------------------------------------
(* Delivery implements AtomicRequest.                                      *)

\* What Runtime is told, by the verdict of a write.
LEMMA TellsFacts ==
  ASSUME NEW k \in Kinds, NEW v \in Verdicts \cup {"none", "unclassified"}
  PROVE  /\ Tells(k, v) \in {"nothing", "again", "done", "failed", "open"}
         /\ Tells(k, v) = "nothing" <=> k = "read" \/ v = "none"
         /\ Tells(k, v) = "again" => k # "read" /\ v = "retryable"
         /\ Tells(k, v) = "done" => k # "read" /\ v = "ok"
         /\ Tells(k, v) = "failed" => k # "read" /\ v = "permanent"
         /\ k # "read" /\ v = "retryable" => Tells(k, v) = "again"
BY DEF Tells, Verdicts

\* Whose final verdicts are true, in whatever body they come.
Candid(name) == name \notin ResendOpenWrites \cup RejectGarbled \cup RejectBare \cup RejectPartial

\* An attempt ends: what it tells is true of what it did.
LEMMA ConcludeTells ==
  ASSUME DeliveryInv, DeliveryInv', stage' = "idle", verdict \in {"none", "retryable"},
         verdict' \in Verdicts \cup {"unclassified"}, UNCHANGED <<operation, effects>>
  PROVE  Contract!Work
<1>1. kind \in Kinds /\ provider' = provider /\ kind' = kind /\ effects' = effects
  BY ProfileKnown DEF DeliveryInv, operation
<1>2. CASE kind = "read"
  BY <1>1, <1>2 DEF Contract!Work, Tells
<1>3. CASE kind # "read"
  <2>1. Tells(kind, verdict) \in {"nothing", "again"}
    BY <1>1, <1>3, TellsFacts DEF Verdicts
  <2>2. Tells(kind, verdict') \in {"again", "done", "failed", "open"}
    BY <1>1, <1>3, TellsFacts DEF Verdicts
  <2>3. Tells(kind, verdict') = "done" => effects' > 0
    BY <1>1, <1>3, TellsFacts DEF DeliveryInv, VerdictTruthful, TypeOK
  <2>4. Candid(provider) /\ Tells(kind, verdict') \in {"again", "failed"} => effects' = 0
    <3>1. Tells(kind, verdict') \in {"again", "failed"} => verdict' \in {"retryable", "permanent"}
      BY <1>1, TellsFacts
    <3>2. Candid(provider) /\ verdict' \in {"retryable", "permanent"} => effects' = 0
      <4>1. effects \in Nat
        BY DEF DeliveryInv, TypeOK
      <4>2. SUFFICES ASSUME Candid(provider), verdict' \in {"retryable", "permanent"}
                     PROVE  effects = 0
        BY <1>1
      <4>3. provider' \notin ResendOpenWrites /\ ~Misread' /\ kind' # "read"
        BY <1>1, <1>3, <4>2 DEF Candid, Misread
      <4> QED
        BY <1>1, <4>1, <4>2, <4>3 DEF DeliveryInv, CarefulInv, VerdictTruthful
    <3> QED
      BY <3>1, <3>2
  <2> QED
    BY <1>1, <2>1, <2>2, <2>3, <2>4 DEF Contract!Work, Contract!Tell, Candid
<1> QED
  BY <1>2, <1>3

\* A write that takes effect does so before anything is told, and once where that is promised.
LEMMA EffectHappens ==
  ASSUME DeliveryInv, stage = "sent", TakesEffect, UNCHANGED <<operation, verdict>>
  PROVE  Contract!Work
<1>1. /\ kind \in Kinds /\ (kind # "read" => kind \in Writes) /\ effects \in Nat
      /\ provider' = provider /\ kind' = kind /\ verdict' = verdict /\ verdict = "none"
  BY ProfileKnown DEF DeliveryInv, TypeOK, AttemptInv, operation
<1>2. Tells(kind, verdict) = "nothing"
  BY <1>1, TellsFacts
<1>3. CASE kind = "read"
  BY <1>1, <1>3 DEF TakesEffect, DeliveryInv, TypeOK, Contract!Work
<1>4. CASE kind # "read" /\ Absorbed
  <2>1. effects \in {0, 1} /\ effects' = 1
    BY <1>1, <1>4 DEF TakesEffect, DeliveryInv, AbsorbedInv
  <2> QED
    BY <1>1, <1>2, <2>1 DEF Contract!Work, Contract!Perform
<1>5. CASE kind # "read" /\ ~Absorbed
  <2>1. effects' = effects + 1 /\ kind = "create"
    BY <1>1, <1>5 DEF TakesEffect, Absorbed, Writes
  <2>2. "create" \in Profile["stripe"].keyed
    BY DEF Profile, Providers, ServiceProfile, ReaderProfile, Stripe, BodyFirst, Standard
  <2>3. provider # "stripe"
    BY <1>5, <2>1, <2>2 DEF Absorbed, profile
  <2>4. provider \notin ResendOpenWrites => effects = 0
    BY <1>5 DEF DeliveryInv, CarefulInv
  <2> QED
    BY <1>1, <1>2, <2>1, <2>3, <2>4 DEF Contract!Work, Contract!Perform
<1> QED
  BY <1>3, <1>4, <1>5

\* Every step of an operation is one of the contract's, or none.
LEMMA StepImplements ==
  ASSUME DeliveryInv, DeliveryInv', [Next]_vars
  PROVE  [Contract!Next]_(Contract!vars)
<1>1. kind \in Kinds /\ (stage # "idle" => verdict = "none")
  BY ProfileKnown DEF DeliveryInv, AttemptInv
<1>2. CASE UNCHANGED <<operation, effects, verdict>>
  BY <1>2 DEF operation, Contract!vars
<1>3. CASE Attempt
  <2>1. verdict \in {"none", "retryable"} /\ verdict' = "none" /\ UNCHANGED <<operation, effects>>
    BY <1>3 DEF Attempt, Starts
  <2>2. CASE kind # "read" /\ verdict = "retryable"
    <3>1. Tells(kind, "retryable") = "again" /\ Tells(kind, "none") = "nothing"
      BY <1>1, <2>2, TellsFacts DEF Verdicts
    <3> QED
      BY <2>1, <2>2, <3>1 DEF operation, Contract!Repeat, Contract!Next
  <2>3. CASE kind = "read"
    BY <2>1, <2>3 DEF operation, Tells, Contract!vars
  <2> QED
    BY <1>2, <2>1, <2>2, <2>3
<1>4. CASE Reject
  BY <1>4, ConcludeTells DEF Reject, Starts, DeliveryInv, Verdicts, Contract!Next
<1>5. ASSUME NEW result \in Verdicts \cup {"unclassified"}, Conclude(result), stage # "idle"
      PROVE  Contract!Next
  BY <1>1, <1>5, ConcludeTells DEF Conclude, Contract!Next
<1>6. CASE TokenFails
  BY <1>5, <1>6 DEF TokenFails, Verdicts
<1>7. ASSUME NEW r \in Reply, Answer(r) PROVE [Contract!Next]_(Contract!vars)
  <2>1. CASE UNCHANGED effects
    BY <1>2, <1>7, <2>1 DEF Answer
  <2>2. CASE TakesEffect
    BY <1>7, <2>2, EffectHappens DEF Answer, Contract!Next
  <2> QED
    BY <1>7, <2>1, <2>2 DEF Answer
<1>8. CASE Renew
  BY <1>2, <1>5, <1>8 DEF Renew, Verdicts
<1>9. CASE Poll
  BY <1>2, <1>5, <1>9 DEF Poll
<1>10. CASE Judge
  <2>1. Verdict(profile, kind, reply) \in Verdicts
    BY <1>10, ProfileKnown, VerdictType DEF DeliveryInv, TypeOK
  <2> QED
    BY <1>5, <1>10, <2>1 DEF Judge
<1>11. CASE UNCHANGED vars
  BY <1>2, <1>11 DEF vars
<1> QED
  BY <1>3, <1>4, <1>6, <1>7, <1>8, <1>9, <1>10, <1>11 DEF Next

\* RequestContract: to Runtime a write is one effect and one true final verdict, for the
\* providers and kinds that keep each part, however it is repeated and its token renewed.
THEOREM RequestImplemented == Spec => RequestContract
<1>1. Init => Contract!Init
  <2> SUFFICES ASSUME Init PROVE Contract!Init
    OBVIOUS
  <2>1. Tells(kind, verdict) = "nothing" /\ effects = 0
    BY DEF Init, Tells
  <2> QED
    BY <2>1 DEF Contract!Init
<1>2. DeliveryInv /\ DeliveryInv' /\ [Next]_vars => [Contract!Next]_(Contract!vars)
  BY StepImplements
<1> QED
  BY <1>1, <1>2, DeliveryInvariant, PTL DEF Spec, RequestContract, Contract!Spec
=============================================================================
