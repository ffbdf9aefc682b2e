-------------------------- MODULE ProviderProfiles --------------------------
(***************************************************************************)
(* The profiles of the providers: the choices each makes in its execute    *)
(* function and in the operation around it.  kinds names what its          *)
(* operations do; a provider that only notifies has nothing to update.     *)
(***************************************************************************)
EXTENDS ProviderVerdicts

Sends == {"read", "create"}   \* a provider that only reads and sends

\* Messages.
Feishu == [Standard EXCEPT !.kinds = {"create"}, !.keyed = {"create"}, !.token = TRUE,
                           !.envelope = TRUE, !.bare = OnCreate("uncertain")]
MicrosoftTeams == [Standard EXCEPT !.kinds = Sends, !.bare = OnCreate("uncertain")]
DingTalk == [Standard EXCEPT !.kinds = Sends, !.envelope = TRUE, !.bare = Always("permanent")]
Discord == [Standard EXCEPT !.kinds = Sends, !.keyed = {"create"}]
EnterpriseWeChat == [DingTalk EXCEPT !.token = TRUE]
GoogleChat == [Standard EXCEPT !.kinds = Sends]
Line == [Standard EXCEPT !.kinds = Sends]
LineWorks == [Standard EXCEPT !.kinds = Sends]
Slack == [Standard EXCEPT !.kinds = Sends, !.keyed = {"create"}, !.envelope = TRUE,
                          !.blankDecodes = FALSE, !.bare = Always("permanent"),
                          !.limited = Always("retryable")]
Twilio == [Refusing408 EXCEPT !.kinds = Sends, !.keyed = {"create"}]
WhatsApp == [Refusing408 EXCEPT !.kinds = Sends]
FacebookMessenger == [Refusing408 EXCEPT !.kinds = Sends]
Webhook == [Refusing408 EXCEPT !.kinds = Sends]

\* webpushlib's answer is not decoded; no replay key is sent.
WebPush == [Standard EXCEPT !.kinds = {"create"}, !.again = {"429", "5xx"}, !.open = {"lost"},
                            !.garbled = Always("ok")]

\* Appointments.
CalCom == Standard
Calendly == Standard
GoogleCalendar == [Standard EXCEPT !.refreshes = TRUE]
MicrosoftBooking == [Standard EXCEPT !.refreshes = TRUE]

\* Work items.  Linear and monday.com report a rate limit in the GraphQL errors.
Asana == Standard
Jira == Standard
Linear == [Standard EXCEPT !.envelope = TRUE, !.limited = Always("retryable")]
Monday == [Standard EXCEPT !.envelope = TRUE, !.limited = Always("retryable")]
NetSuite == Standard
Odoo == Standard
SAPBusinessOne == Standard

\* Shops, carriers and payments.
Shopify == [Standard EXCEPT !.kinds = {"read"}, !.envelope = TRUE]
ShopifyFulfillment == [Standard EXCEPT !.envelope = TRUE]
DHL == Transport
UPS == [Transport EXCEPT !.refreshes = TRUE]
FedEx == [Transport EXCEPT !.refreshes = TRUE]

\* The merchant's order and refund numbers are the replay keys.
Alipay == [Refusing408 EXCEPT !.keyed = {"create"}, !.envelope = TRUE, !.blankDecodes = FALSE,
                              !.bare = Unsure]
WeChatPay == [Refusing408 EXCEPT !.keyed = {"create"}]

\* Mutant: no Idempotency-Key.
StripeUnkeyed == [BodyFirst EXCEPT !.again = {"429", "5xx"}, !.open = {"lost"}]
\* Idempotency-Key with every POST.
Stripe == [BodyFirst EXCEPT !.keyed = {"create"}, !.again = {"429", "5xx"}, !.open = {"lost"}]

\* Accounting and identity checks: a creation without an identity in the answer is open.
QuickBooks == [Standard EXCEPT !.keyed = {"create", "update"}, !.refreshes = TRUE,
                               !.open = {"lost", "5xx"}, !.blankDecodes = FALSE,
                               !.bare = OnCreate("uncertain")]
Freee == [Standard EXCEPT !.kinds = Sends, !.refreshes = TRUE, !.open = {"lost", "5xx"},
                          !.blankDecodes = FALSE, !.garbled = Always("permanent"),
                          !.bare = OnCreate("uncertain")]
MoneyForward == Freee
Persona == [Standard EXCEPT !.kinds = Sends, !.keyed = {"create"}, !.open = {"lost", "5xx"},
                            !.blankDecodes = FALSE, !.bare = OnCreate("uncertain")]
OpenAI == [Standard EXCEPT !.kinds = Sends, !.open = {"lost", "5xx"}, !.blankDecodes = FALSE,
                           !.bare = OnCreate("uncertain")]

\* Accounts and files.
GoogleAccount == [Transport EXCEPT !.refreshes = TRUE]
MicrosoftAccount == [Transport EXCEPT !.refreshes = TRUE]
S3 == [Standard EXCEPT !.kinds = {"read", "update"}, !.garbled = Always("ok")]

\* Support, help centers, reviews and events.
Zendesk == [Refusing408 EXCEPT !.keyed = {"create", "update"}]
Confluence == BodyFirst
HelpScoutDocs == BodyFirst
IntercomArticles == BodyFirst
NotionDocs == BodyFirst
ReadMe == BodyFirst
ZendeskGuide == BodyFirst
GooglePlayConsole == [BodyFirst EXCEPT !.kinds = {"read", "update"}, !.blankDecodes = FALSE]
DatadogMetrics == [BodyFirst EXCEPT !.kinds = Sends]
PostHog == [BodyFirst EXCEPT !.kinds = Sends, !.keyed = {"create"}, !.blankDecodes = FALSE]

\* Signatures.
AdobeSign == Envelopes
DocuSign == [Envelopes EXCEPT !.refreshes = TRUE]
SignNow == Envelopes
Fadada == [Envelopes EXCEPT !.token = TRUE, !.envelope = TRUE, !.blankDecodes = FALSE,
                            !.bare = Always("permanent")]

\* Documents of a knowledge base: a lost upload, too, is retryable.
KnowledgeBase == [Standard EXCEPT !.again = {"lost", "408", "429", "5xx"}, !.open = {},
                                  !.blankDecodes = FALSE, !.garbled = Always("permanent"),
                                  !.envelope = TRUE]

\* A carrier whose every error in the body is final.
SFExpress == [Transport EXCEPT !.bodyFirst = TRUE, !.blankDecodes = FALSE, !.envelope = TRUE,
                               !.kinds = Sends, !.bare = Always("permanent")]

\* Mail and telemetry over Runtime's transports: only success is told from failure, and
\* (refused) whether the message was accepted.
Message == [Transport EXCEPT !.kinds = Sends, !.again = {}, !.open = Statuses \ {"2xx"},
                             !.envelope = TRUE]
SMTP == [Message EXCEPT !.refused = [k \in Kinds |-> IF k = "read" THEN "retryable" ELSE "permanent"]]
MQTT == Message

\* Calls that are billed: a repetition is billed again.
ExpenseOCR == [Transport EXCEPT !.kinds = {"create"}, !.blankDecodes = FALSE, !.bare = Unsure,
                                !.envelope = TRUE, !.limited = Always("retryable")]
WebSearch == [Transport EXCEPT !.kinds = {"create"}, !.again = {}, !.blankDecodes = FALSE,
                               !.bare = Unsure]

\* Tools: what a failed tool did is not known.  Composio calls that uncertain; MCP calls an error
\* of the protocol (limited) uncertain, an error of the tool (refused) permanent.
Composio == [Transport EXCEPT !.kinds = Sends, !.token = TRUE, !.partial = TRUE,
                              !.blankDecodes = FALSE, !.bare = Unsure, !.envelope = TRUE,
                              !.refused = Unreadable, !.limited = Unsure]
MCP == [Transport EXCEPT !.kinds = Sends, !.token = TRUE, !.partial = TRUE, !.again = {},
                         !.open = Statuses \ {"2xx"}, !.blankDecodes = FALSE, !.bare = Unsure,
                         !.envelope = TRUE, !.limited = Unsure]

ServiceProfile ==
  [ feishu |-> Feishu, microsoft_teams |-> MicrosoftTeams, dingtalk |-> DingTalk,
    discord |-> Discord, enterprise_wechat |-> EnterpriseWeChat, google_chat |-> GoogleChat,
    line |-> Line, line_works |-> LineWorks, slack |-> Slack, twilio |-> Twilio,
    whatsapp |-> WhatsApp, facebook_messenger |-> FacebookMessenger, webhook |-> Webhook,
    web_push |-> WebPush, cal_com |-> CalCom, calendly |-> Calendly,
    google_calendar |-> GoogleCalendar, microsoft_booking |-> MicrosoftBooking,
    asana |-> Asana, jira |-> Jira, linear |-> Linear, monday |-> Monday,
    netsuite |-> NetSuite, odoo |-> Odoo, sap_business_one |-> SAPBusinessOne,
    shopify |-> Shopify, shopify_fulfillment |-> ShopifyFulfillment, dhl |-> DHL, ups |-> UPS,
    fedex |-> FedEx, alipay |-> Alipay, wechat_pay |-> WeChatPay, stripe |-> Stripe,
    quickbooks |-> QuickBooks, freee |-> Freee, money_forward |-> MoneyForward,
    persona |-> Persona, openai |-> OpenAI, google |-> GoogleAccount,
    microsoft |-> MicrosoftAccount, s3 |-> S3, zendesk |-> Zendesk, confluence |-> Confluence,
    help_scout_docs |-> HelpScoutDocs, intercom_articles |-> IntercomArticles,
    notion_docs |-> NotionDocs, readme |-> ReadMe, zendesk_guide |-> ZendeskGuide,
    google_play |-> GooglePlayConsole, datadog_metrics |-> DatadogMetrics, posthog |-> PostHog,
    adobe_sign |-> AdobeSign, docusign |-> DocuSign, signnow |-> SignNow, fadada |-> Fadada,
    knowledge_base |-> KnowledgeBase, sf_express |-> SFExpress, smtp |-> SMTP, mqtt |-> MQTT,
    expense_ocr |-> ExpenseOCR, web |-> WebSearch, composio |-> Composio, mcp |-> MCP ]
=============================================================================
